---- MODULE Spec2Model ----
(***************************************************************************)
(* Distpatch-PDF: the unified configuration store (ConfigManager), its     *)
(* atomic persistence, its observer protocol and its callers.              *)
(*                                                                         *)
(* The specifications below share their definitions:                       *)
(*   Spec      one caller; every setter is one step (lock, mutate, save,   *)
(*             unlock, fan out), over a store built by load-or-migrate;    *)
(*   SpecObs   one caller, registered observers that may raise, and file   *)
(*             operations that may fail;                                   *)
(*   SpecConc  two threads; a setter is split at every point where the     *)
(*             interpreter may switch threads (lock, mutate, each step of  *)
(*             the atomic write, unlock, each snapshot capture and each    *)
(*             callback delivery), with a crash possible inside a write;   *)
(*   SpecCase  codes in either case, lists that repeat an entry, and the   *)
(*             facades MappingService and StopoverEmailService;            *)
(*   SpecGet   a caller that keeps and changes what a getter returned;     *)
(*   SpecMig   processes that start over legacy fragments;                 *)
(*   SpecCodec the recipient codec of StopoverEmailService;                *)
(*   SpecScan  DetectionEngine and the controller's analysis of a PDF;     *)
(*   SpecInst  two threads inside ConfigManager.instance();                *)
(*   SpecRepl  two threads, replace_all_config split at each assignment,   *)
(*             next to a setter and a getter;                              *)
(*   SpecAdd   two threads inside MappingService.add_mapping;              *)
(*   SpecArg   callbacks that change the object they are handed;           *)
(*   SpecLive  two threads and callbacks that call the store, with weak    *)
(*             fairness of the steps of a started call.                    *)
(***************************************************************************)
EXTENDS Integers, Sequences, FiniteSets, TLC

VARIABLES
    config,     \* ConfigManager._config (in memory)
    disk,       \* the file at APP_CONFIG_PATH
    bak,        \* the file at APP_CONFIG_PATH + ".bak"
    tmp,        \* the file at APP_CONFIG_PATH + ".tmp"
    legacy,     \* the legacy fragment files, by path
    obs,        \* the five observer lists (_obs_stopovers ... _obs_all)
    last,       \* record of the last completed call (Spec)
    lock,       \* the RLock: owner thread (0 = free)
    th,         \* per thread: position and locals (SpecConc)
    gen,        \* number of in-memory mutations so far (SpecConc)
    seen,       \* per observer callback: generation of the last snapshot delivered
    hist,       \* facts recorded for the claims (write failures, crash, ...)
    held,       \* the value a getter returned, in the hands of its caller (SpecGet)
    rcpt,       \* a recipient set on its way through the codec (SpecCodec)
    scan,       \* the analysis of one document by the controller (SpecScan)
    inst        \* ConfigManager._instance and the callers of instance() (SpecInst)

vars == <<config, disk, bak, tmp, legacy, obs, last, lock, th, gen, seen, hist, held,
          rcpt, scan, inst>>

\* What the store's operations never touch
aside == <<rcpt, scan, inst>>

\* The store, its files and its callers: what the codec, the analysis and the
\* accessor of the instance never touch
store == <<config, disk, bak, tmp, legacy, obs, last, lock, th, gen, seen, hist, held>>

\* ------------------------------------------------------------------ bounds

MaxStopovers == 1       \* longest list handed to set_stopovers
MaxObs == 2             \* callbacks registered on one store
MaxGen == 2             \* mutations per run of SpecConc
MaxFaults == 1          \* file operations that fail per run
MaxRepeat == 2          \* longest argument list of SpecCase, which may repeat an entry
MaxBoots == 2           \* processes that start, one after the other (SpecMig)
MaxPages == 2           \* pages of the longest document analysed (SpecScan)

\* ------------------------------------------------------------------ strings

Codes == {"ABJ", "abj", "DKR"}

\* str.upper() on the strings of the model
Upper(s) == CASE s = "abj" -> "ABJ"
              [] s = "dkr" -> "DKR"
              [] OTHER -> s

\* str(n) for the integers a JSON file of the model may hold
IntStr(n) == CASE n = 0 -> "0"
               [] n = 1 -> "1"
               [] n = 2 -> "2"
               [] OTHER -> "7"

SeqToSet(s) == {s[i] : i \in 1..Len(s)}

\* ------------------------------------------------------------------ JSON

\* A JSON value as json.load returns it: str, int, None, list, dict.
\* j[1] is the type, j[2] the value.
JS(s) == <<"str", s>>
JN(n) == <<"int", n>>
JL(l) == <<"list", l>>
JD(d) == <<"dict", d>>
JNull == <<"null">>

\* isinstance(x, (str, int)) and str(x)
IsStrOrInt(j) == j[1] \in {"str", "int"}
StrOf(j) == IF j[1] = "int" THEN IntStr(j[2]) ELSE j[2]
IsStr(j) == j[1] = "str"

\* [str(x) for x in l if isinstance(x, (str, int))]
StrList(l) == LET kept == SelectSeq(l, IsStrOrInt)
              IN  [i \in 1..Len(kept) |-> StrOf(kept[i])]

\* dict.get(key, default)
Get(d, key, default) == IF key \in DOMAIN d THEN d[key] ELSE default

\* A file: absent, unparseable text, a truncated write, or a JSON document.
\* f[1] is the kind, f[2] the document.
Absent == <<"absent">>
Garbage == <<"garbage">>
Partial == <<"partial">>
JsonFile(j) == <<"json", j>>

\* ------------------------------------------------------------------ configuration

_default_config ==
    [version |-> 1,
     stopovers |-> <<>>,
     mappings |-> <<>>,
     templates |-> [subject |-> "", body |-> ""],
     last_sent |-> <<>>]

\* json.dump(self._config): the JSON document of an in-memory configuration
Dump(cfg) ==
    JD([k \in {"version", "stopovers", "mappings", "templates", "last_sent"} |->
        CASE k = "version" -> JN(cfg.version)
          [] k = "stopovers" -> JL([i \in 1..Len(cfg.stopovers) |-> JS(cfg.stopovers[i])])
          [] k = "mappings" ->
                JD([c \in DOMAIN cfg.mappings |->
                    JL([i \in 1..Len(cfg.mappings[c]) |-> JS(cfg.mappings[c][i])])])
          [] k = "templates" ->
                JD([f \in {"subject", "body"} |-> JS(cfg.templates[f])])
          [] OTHER ->
                JD([c \in DOMAIN cfg.last_sent |-> JS(cfg.last_sent[c])])])

\* int(cfg.get("version", 1)): raises on None, a list, a dict or a non-numeric string
IntRaises(j) == \/ j[1] \in {"null", "list", "dict"}
                \/ j[1] = "str" /\ j[2] \notin {"0", "1", "2"}
IntOf(j) == IF j[1] = "int" THEN j[2]
            ELSE CASE j[2] = "0" -> 0 [] j[2] = "2" -> 2 [] OTHER -> 1

SanitizeRaises(doc) == IntRaises(Get(doc, "version", JN(1)))

\* A sanitizer that knows a single address and not a list of them
SanitizeEmails_single_only(v) ==
    CASE v[1] = "str" -> <<v[2]>>
      [] OTHER -> <<>>

\* the recipients of one mapping entry: a list of str/int, a single str, or nothing
SanitizeEmails(v) ==
    CASE v[1] = "list" -> StrList(v[2])
      [] v[1] = "str" -> <<v[2]>>
      [] OTHER -> <<>>

_sanitize_loaded_config(doc) ==
    LET stopovers == Get(doc, "stopovers", JL(<<>>))
        mappings == Get(doc, "mappings", JD(<<>>))
        templates == Get(doc, "templates", JD(<<>>))
        last_sent == Get(doc, "last_sent", JD(<<>>))
        field(name) ==
            IF templates[1] = "dict" /\ IsStrOrInt(Get(templates[2], name, JS("")))
            THEN StrOf(Get(templates[2], name, JS("")))
            ELSE ""
    IN  [version |-> IntOf(Get(doc, "version", JN(1))),
         stopovers |->
            IF stopovers[1] = "list" THEN StrList(stopovers[2])
            ELSE <<>>,
         mappings |->
            IF mappings[1] = "dict"
            THEN [k \in DOMAIN mappings[2] |-> SanitizeEmails(mappings[2][k])]
            ELSE <<>>,
         templates |-> [subject |-> field("subject"), body |-> field("body")],
         last_sent |->
            IF last_sent[1] = "dict"
            THEN [k \in {c \in DOMAIN last_sent[2] : IsStr(last_sent[2][c])} |->
                    last_sent[2][k][2]]
            ELSE <<>>]

\* ------------------------------------------------------------------ setters: the in-memory mutation

\* list.remove(x): drops the first occurrence
RemoveFirst(lst, x) ==
    IF \E i \in 1..Len(lst) : lst[i] = x
    THEN LET i == CHOOSE j \in 1..Len(lst) : lst[j] = x /\ \A k \in 1..(j - 1) : lst[k] # x
         IN  SubSeq(lst, 1, i - 1) \o SubSeq(lst, i + 1, Len(lst))
    ELSE lst

\* if s not in lst: lst.append(s)
AppendIfAbsent(lst, s) == IF s \in SeqToSet(lst) THEN lst ELSE Append(lst, s)

\* dict.pop(key, None)
Pop(d, key) == [k \in DOMAIN d \ {key} |-> d[k]]

\* d.setdefault(key, value): an entry that is already there is kept
Put_keeping(d, key, value) ==
    [k \in DOMAIN d \cup {key} |-> IF k \in DOMAIN d THEN d[k] ELSE value]

\* d[key] = value
Put(d, key, value) == [k \in DOMAIN d \cup {key} |-> IF k = key THEN value ELSE d[k]]

\* [str(s).upper() for s in stopovers]
UpperAll(lst) == [i \in 1..Len(lst) |-> Upper(lst[i])]

\* {k.upper(): v for k, v in d.items() if k.upper() in desired}
\* (of two keys that differ only by case the later one of the dict wins; in the
\* runs of this model such keys carry equal values)
PruneUpper(d, desired) ==
    [K \in {Upper(k) : k \in {c \in DOMAIN d : Upper(c) \in SeqToSet(desired)}} |->
        d[CHOOSE k \in DOMAIN d : Upper(k) = K]]

\* A call of a public setter: its name and its arguments (those the setter does not
\* take are empty).
Call(op, code, codes, emails, ts, subject, body) ==
    <<op, code, codes, emails, ts, subject, body>>
ArgOp(c) == c[1]
ArgCode(c) == c[2]
ArgCodes(c) == c[3]
ArgEmails(c) == c[4]
ArgTs(c) == c[5]
ArgSubject(c) == c[6]
ArgBody(c) == c[7]

\* datetime.utcnow().isoformat() + "Z"
UtcNow == "now"

\* The body of each setter inside "with self._lock": the configuration it leaves in
\* memory, whether it calls _save(), and the channels it notifies after the lock.
\* set_stopovers that prunes mappings and forgets last_sent
set_stopovers_body_keeps_last_sent(cfg, c) ==
    LET desired == UpperAll(ArgCodes(c))
    IN  [cfg |-> [cfg EXCEPT !.stopovers = desired,
                             !.mappings = PruneUpper(cfg.mappings, desired)],
         save |-> TRUE,
         emits |-> <<"stopovers", "mappings", "last_sent">>]

\* add_stopover that saves whether or not it appended
add_stopover_body_always_saves(cfg, c) ==
    [cfg |-> [cfg EXCEPT !.stopovers = AppendIfAbsent(cfg.stopovers, ArgCode(c))],
     save |-> TRUE,
     emits |-> <<"stopovers">>]

set_stopovers_body(cfg, c) ==
    LET desired == UpperAll(ArgCodes(c))
    IN  [cfg |-> [cfg EXCEPT !.stopovers = desired,
                             !.mappings = PruneUpper(cfg.mappings, desired),
                             !.last_sent = PruneUpper(cfg.last_sent, desired)],
         save |-> TRUE,
         emits |-> <<"stopovers", "mappings", "last_sent">>]

add_stopover_body(cfg, c) ==
    [cfg |-> [cfg EXCEPT !.stopovers = AppendIfAbsent(cfg.stopovers, ArgCode(c))],
     save |-> ArgCode(c) \notin SeqToSet(cfg.stopovers),
     emits |-> <<"stopovers">>]

remove_stopover_body(cfg, c) ==
    [cfg |-> [cfg EXCEPT !.stopovers = RemoveFirst(cfg.stopovers, ArgCode(c)),
                         !.mappings = Pop(cfg.mappings, ArgCode(c)),
                         !.last_sent = Pop(cfg.last_sent, ArgCode(c))],
     save |-> TRUE,
     emits |-> <<"stopovers", "mappings", "last_sent">>]

\* set_mapping that forgets self._save()
set_mapping_body_unsaved(cfg, c) ==
    [cfg |-> [cfg EXCEPT !.mappings = Put(cfg.mappings, Upper(ArgCode(c)), ArgEmails(c)),
                         !.stopovers = AppendIfAbsent(cfg.stopovers, Upper(ArgCode(c)))],
     save |-> FALSE,
     emits |-> <<"mappings", "stopovers">>]

set_mapping_body(cfg, c) ==
    [cfg |-> [cfg EXCEPT !.mappings = Put(cfg.mappings, Upper(ArgCode(c)), ArgEmails(c)),
                         !.stopovers = AppendIfAbsent(cfg.stopovers, Upper(ArgCode(c)))],
     save |-> TRUE,
     emits |-> <<"mappings", "stopovers">>]

\* remove_mapping that also takes the code out of stopovers
remove_mapping_body_drops_stopover(cfg, c) ==
    [cfg |-> [cfg EXCEPT !.mappings = Pop(cfg.mappings, ArgCode(c)),
                         !.stopovers = RemoveFirst(cfg.stopovers, ArgCode(c))],
     save |-> ArgCode(c) \in DOMAIN cfg.mappings,
     emits |-> <<"mappings">>]

remove_mapping_body(cfg, c) ==
    [cfg |-> [cfg EXCEPT !.mappings = Pop(cfg.mappings, ArgCode(c))],
     save |-> ArgCode(c) \in DOMAIN cfg.mappings,
     emits |-> <<"mappings">>]

set_subject_body(cfg, c) ==
    [cfg |-> [cfg EXCEPT !.templates.subject = ArgSubject(c)],
     save |-> TRUE,
     emits |-> <<"templates">>]

set_body_body(cfg, c) ==
    [cfg |-> [cfg EXCEPT !.templates.body = ArgBody(c)],
     save |-> TRUE,
     emits |-> <<"templates">>]

set_templates_body(cfg, c) ==
    [cfg |-> [cfg EXCEPT !.templates = [subject |-> ArgSubject(c), body |-> ArgBody(c)]],
     save |-> TRUE,
     emits |-> <<"templates">>]

\* set_last_sent that, like set_mapping, makes sure the code is a stopover
set_last_sent_body_adds_stopover(cfg, c) ==
    [cfg |-> [cfg EXCEPT !.last_sent =
                Put(cfg.last_sent, Upper(ArgCode(c)), IF ArgTs(c) # "" THEN ArgTs(c) ELSE UtcNow),
                         !.stopovers = AppendIfAbsent(cfg.stopovers, Upper(ArgCode(c)))],
     save |-> TRUE,
     emits |-> <<"last_sent">>]

set_last_sent_body(cfg, c) ==
    [cfg |-> [cfg EXCEPT !.last_sent =
                Put(cfg.last_sent, Upper(ArgCode(c)), IF ArgTs(c) # "" THEN ArgTs(c) ELSE UtcNow)],
     save |-> TRUE,
     emits |-> <<"last_sent">>]

clear_last_sent_body(cfg, c) ==
    [cfg |-> [cfg EXCEPT !.last_sent = Pop(cfg.last_sent, ArgCode(c))],
     save |-> ArgCode(c) \in DOMAIN cfg.last_sent,
     emits |-> <<"last_sent">>]

clear_last_sent_normalized_body(cfg, c) ==
    [cfg |-> [cfg EXCEPT !.last_sent = Pop(cfg.last_sent, Upper(ArgCode(c)))],
     save |-> Upper(ArgCode(c)) \in DOMAIN cfg.last_sent,
     emits |-> <<"last_sent">>]

Body(cfg, c) ==
    CASE ArgOp(c) = "set_stopovers" -> set_stopovers_body(cfg, c)
      [] ArgOp(c) = "add_stopover" -> add_stopover_body(cfg, c)
      [] ArgOp(c) = "remove_stopover" -> remove_stopover_body(cfg, c)
      [] ArgOp(c) = "set_mapping" -> set_mapping_body(cfg, c)
      [] ArgOp(c) = "remove_mapping" -> remove_mapping_body(cfg, c)
      [] ArgOp(c) = "set_subject" -> set_subject_body(cfg, c)
      [] ArgOp(c) = "set_body" -> set_body_body(cfg, c)
      [] ArgOp(c) = "set_templates" -> set_templates_body(cfg, c)
      [] ArgOp(c) = "set_last_sent" -> set_last_sent_body(cfg, c)
      [] ArgOp(c) = "clear_last_sent" -> clear_last_sent_body(cfg, c)
      [] OTHER -> clear_last_sent_normalized_body(cfg, c)

\* ------------------------------------------------------------------ getters

\* json.loads of a document: str, int, list and dict back as values
RECURSIVE Loads(_)
Loads(j) ==
    CASE j[1] \in {"str", "int"} -> j[2]
      [] j[1] = "null" -> j
      [] j[1] = "list" -> [i \in 1..Len(j[2]) |-> Loads(j[2][i])]
      [] OTHER -> [k \in DOMAIN j[2] |-> Loads(j[2][k])]

\* What a getter hands out: the value, and the containers inside it (by their path
\* in the value) that are the very objects self._config holds.
\* get_all: json.loads(json.dumps(self._config))
get_all(cfg) == <<Loads(Dump(cfg)), {}>>

\* get_stopovers: list(...), a new list of the same strings
get_stopovers(cfg) == <<cfg.stopovers, {}>>

\* get_mappings with dict(...): a new dict that holds the store's own lists
get_mappings_shallow(cfg) == <<cfg.mappings, {<<k>> : k \in DOMAIN cfg.mappings}>>

\* get_mappings: {k: list(v) for k, v in ...}, a new dict of new lists
get_mappings(cfg) == <<[k \in DOMAIN cfg.mappings |-> cfg.mappings[k]], {}>>

\* get_templates: a new dict of the two strings
get_templates(cfg) == <<[subject |-> cfg.templates.subject, body |-> cfg.templates.body], {}>>

\* get_last_sent: dict(...), a new dict of the same strings
get_last_sent(cfg) == <<cfg.last_sent, {}>>

\* is_stopover_enabled: str(code).upper() in self.get_stopovers()
is_stopover_enabled(cfg, code) == Upper(code) \in SeqToSet(get_stopovers(cfg)[1])

\* ------------------------------------------------------------------ persistence

\* The three files of the unified configuration.
Files(d, b, t) == [disk |-> d, bak |-> b, tmp |-> t]

\* What the operating system does to one write: nothing wrong, or the failure of
\* os.makedirs, of shutil.copy2, of open/json.dump, or of os.replace.
IOOutcomes == {"ok", "mkdir", "copy", "dump", "replace"}

\* shutil.copy2(path, bak_path), inside its own try/except
CopyBak(fs, io) ==
    IF fs.disk[1] # "absent" /\ io # "copy" THEN [fs EXCEPT !.bak = fs.disk] ELSE fs

\* The dump written straight to the canonical path
DumpTmp_in_place(fs, doc, io) ==
    [fs EXCEPT !.disk = IF io = "dump" THEN Partial ELSE JsonFile(doc)]

\* open(tmp_path, "w") and json.dump(data, f): a failure leaves a truncated .tmp
DumpTmp(fs, doc, io) ==
    [fs EXCEPT !.tmp = IF io = "dump" THEN Partial ELSE JsonFile(doc)]

\* os.replace(tmp_path, path)
ReplaceTmp(fs) == [fs EXCEPT !.disk = fs.tmp, !.tmp = Absent]

\* A write without the finally block
Cleanup_skipped(fs) == fs

\* finally: if os.path.exists(tmp_path): os.remove(tmp_path)
Cleanup(fs) == [fs EXCEPT !.tmp = Absent]

\* _atomic_write_json(path, data): the files it leaves and whether it raised
_atomic_write_json(fs, doc, io) ==
    IF io = "mkdir" THEN [fs |-> fs, raised |-> TRUE]
    ELSE LET dumped == DumpTmp(CopyBak(fs, io), doc, io)
         IN  IF io \in {"dump", "replace"}
             THEN [fs |-> Cleanup(dumped), raised |-> TRUE]
             ELSE [fs |-> Cleanup(ReplaceTmp(dumped)), raised |-> FALSE]

\* _save without its try/except
_save_uncaught(fs, cfg, io) == _atomic_write_json(fs, Dump(cfg), io)

\* ConfigManager._save: "except Exception: pass"
_save(fs, cfg, io) ==
    [fs |-> _atomic_write_json(fs, Dump(cfg), io).fs, raised |-> FALSE]

\* ------------------------------------------------------------------ observers

Domains == {"stopovers", "mappings", "templates", "last_sent"}
Channels == Domains \cup {"all"}

\* A registered callback: the k-th one appended to the list of its channel.
Callback(ch, k) == [ch |-> ch, k |-> k]
NoCallback == [ch |-> "", k |-> 0]

\* One invocation of a callback, and whether the callback raised.
Delivery(ch, k, raiser) == [ch |-> ch, k |-> k, raised |-> raiser = Callback(ch, k)]

\* A fan-out without the try/except: it ends at the first callback that raises
Fanout_uncaught(ch, o, raiser) ==
    LET n == IF raiser.ch = ch /\ raiser.k \in 1..o[ch] THEN raiser.k ELSE o[ch]
    IN  [log |-> [k \in 1..n |-> Delivery(ch, k, raiser)],
         raised |-> raiser.ch = ch /\ raiser.k \in 1..o[ch]]

\* "for cb in list(self._obs_x): try: cb(...) except Exception: pass":
\* every callback of the list is invoked, whatever the earlier ones did
Fanout(ch, o, raiser) ==
    [log |-> [k \in 1..o[ch] |-> Delivery(ch, k, raiser)], raised |-> FALSE]

\* _emit_all
_emit_all(o, raiser) == Fanout("all", o, raiser)

\* One notification: the domain that changed and the invocations it made, in order.
Notification(ch, calls) == [domain |-> ch, calls |-> calls]

\* _emit_domain with the two loops exchanged: _emit_all() first
_emit_domain_global_first(ch, o, raiser) ==
    LET own == Fanout(ch, o, raiser)
        all == _emit_all(o, raiser)
    IN  IF all.raised THEN [note |-> Notification(ch, all.log), raised |-> TRUE]
        ELSE [note |-> Notification(ch, all.log \o own.log), raised |-> own.raised]

\* _emit_stopovers, _emit_mappings, _emit_templates, _emit_last_sent:
\* the callbacks of the channel, then _emit_all()
_emit_domain(ch, o, raiser) ==
    LET own == Fanout(ch, o, raiser)
        all == _emit_all(o, raiser)
    IN  IF own.raised THEN [note |-> Notification(ch, own.log), raised |-> TRUE]
        ELSE [note |-> Notification(ch, own.log \o all.log), raised |-> all.raised]

\* The notifications of one setter, in the order of its _emit_* calls; a raise
\* that leaves an _emit_* call ends the setter there.
RECURSIVE Notify(_, _, _)
Notify(emits, o, raiser) ==
    IF emits = <<>> THEN [log |-> <<>>, raised |-> FALSE]
    ELSE LET first == _emit_domain(Head(emits), o, raiser)
             rest == Notify(Tail(emits), o, raiser)
         IN  IF first.raised THEN [log |-> <<first.note>>, raised |-> TRUE]
             ELSE [log |-> <<first.note>> \o rest.log, raised |-> rest.raised]

\* A whole setter call: lock, mutate, save, unlock, notify.
Setter(cfg, fs, o, c, io, raiser) ==
    LET b == Body(cfg, c)
        sv == IF b.save THEN _save(fs, b.cfg, io) ELSE [fs |-> fs, raised |-> FALSE]
        nt == IF sv.raised THEN [log |-> <<>>, raised |-> TRUE]
              ELSE Notify(b.emits, o, raiser)
    IN  [cfg |-> b.cfg, fs |-> sv.fs, saved |-> b.save, log |-> nt.log,
         raised |-> nt.raised]

\* ------------------------------------------------------------------ the facades over the store

\* str.strip(): the string without its leading and trailing blanks
RECURSIVE Strip(_)
Strip(s) ==
    IF s = "" THEN s
    ELSE IF SubSeq(s, 1, 1) = " " THEN Strip(SubSeq(s, 2, Len(s)))
    ELSE IF SubSeq(s, Len(s), Len(s)) = " " THEN Strip(SubSeq(s, 1, Len(s) - 1))
    ELSE s

\* str.startswith(p), and the slice s[len(p):]
StartsWith(s, p) == Len(s) >= Len(p) /\ SubSeq(s, 1, Len(p)) = p
After(s, p) == SubSeq(s, Len(p) + 1, Len(s))

_CC_TAG == "__CC__:"
_BCC_TAG == "__BCC__:"

\* An encoder that emits the Bcc entries before the Cc entries
_encode_recipients_bcc_first(to_list, cc_list, bcc_list) ==
    LET NonBlank(x) == x # ""
        kept(l) == SelectSeq([i \in 1..Len(l) |-> Strip(l[i])], NonBlank)
        tagged(tag, l) == [i \in 1..Len(l) |-> tag \o l[i]]
    IN  kept(to_list) \o tagged(_BCC_TAG, kept(bcc_list)) \o tagged(_CC_TAG, kept(cc_list))

\* StopoverEmailService._encode_recipients
_encode_recipients(to_list, cc_list, bcc_list) ==
    LET NonBlank(x) == x # ""
        kept(l) == SelectSeq([i \in 1..Len(l) |-> Strip(l[i])], NonBlank)
        tagged(tag, l) == [i \in 1..Len(l) |-> tag \o l[i]]
    IN  kept(to_list) \o tagged(_CC_TAG, kept(cc_list)) \o tagged(_BCC_TAG, kept(bcc_list))

\* A decoder that knows the Cc tag only: a Bcc entry stays among the To addresses
DecodeStep_cc_only(acc, raw) ==
    LET s == Strip(raw)
    IN  IF s = "" THEN acc
        ELSE IF StartsWith(s, _CC_TAG)
        THEN LET cc == Strip(After(s, _CC_TAG))
             IN  IF cc # "" THEN <<acc[1], Append(acc[2], cc), acc[3]>> ELSE acc
        ELSE <<Append(acc[1], s), acc[2], acc[3]>>

\* One iteration of the loop of _decode_recipients over the three buckets
DecodeStep(acc, raw) ==
    LET s == Strip(raw)
    IN  IF s = "" THEN acc
        ELSE IF StartsWith(s, _CC_TAG)
        THEN LET cc == Strip(After(s, _CC_TAG))
             IN  IF cc # "" THEN <<acc[1], Append(acc[2], cc), acc[3]>> ELSE acc
        ELSE IF StartsWith(s, _BCC_TAG)
        THEN LET bcc == Strip(After(s, _BCC_TAG))
             IN  IF bcc # "" THEN <<acc[1], acc[2], Append(acc[3], bcc)>> ELSE acc
        ELSE <<Append(acc[1], s), acc[2], acc[3]>>

RECURSIVE DecodeFrom(_, _)
DecodeFrom(acc, encoded_list) ==
    IF encoded_list = <<>> THEN acc
    ELSE DecodeFrom(DecodeStep(acc, Head(encoded_list)), Tail(encoded_list))

\* StopoverEmailService._decode_recipients: <<to, cc, bcc>>
_decode_recipients(encoded_list) == DecodeFrom(<<<<>>, <<>>, <<>>>>, encoded_list)

\* A facade method: the setter calls it makes on the store, in order, and what it
\* returns.
\* MappingService.add_mapping
MappingService_add_mapping(cfg, stopover_code, email) ==
    LET code == Upper(stopover_code)
        e == Strip(email)
        current == Get(get_mappings(cfg)[1], code, <<>>)
    IN  IF e # "" /\ e \notin SeqToSet(current)
        THEN [calls |-> <<Call("set_mapping", code, <<>>, Append(current, e), "", "", ""),
                          Call("add_stopover", code, <<>>, <<>>, "", "", "")>>,
              ret |-> TRUE]
        ELSE [calls |-> <<>>, ret |-> FALSE]

\* StopoverEmailService.save_config
StopoverEmailService_save_config(stopover_code, is_enabled, recipients, cc, bcc, last_sent_at) ==
    LET code == Upper(stopover_code)
        encoded == _encode_recipients(recipients, cc, bcc)
    IN  [calls |->
            <<Call(IF is_enabled THEN "add_stopover" ELSE "remove_stopover",
                   code, <<>>, <<>>, "", "", ""),
              Call("set_mapping", code, <<>>, encoded, "", "", "")>>
            \o (IF last_sent_at # ""
                THEN <<Call("set_last_sent", code, <<>>, <<>>, last_sent_at, "", "")>>
                ELSE <<>>),
         ret |-> TRUE]

\* The setter calls of one facade method, one after the other
RECURSIVE Run(_, _, _, _)
Run(cfg, fs, o, calls) ==
    IF calls = <<>> THEN [cfg |-> cfg, fs |-> fs, saved |-> FALSE, log |-> <<>>]
    ELSE LET r == Setter(cfg, fs, o, Head(calls), "ok", NoCallback)
             rest == Run(r.cfg, r.fs, o, Tail(calls))
         IN  [cfg |-> rest.cfg, fs |-> rest.fs, saved |-> r.saved \/ rest.saved,
              log |-> r.log \o rest.log]

\* ------------------------------------------------------------------ load or migrate

\* The legacy fragment files (LEGACY_PATHS): package directory and repository root.
MappingCandidates ==
    <<"pkg/stopover_emails.json", "root/stopover_emails.json",
      "pkg/mappings.json", "root/mappings.json">>
TemplateCandidates == <<"pkg/templates.json", "root/templates.json">>
TemplateTxt == "pkg/email_template.txt"
ConfigCandidates == <<"pkg/config.json", "root/config.json">>
LegacyPaths ==
    SeqToSet(MappingCandidates) \cup SeqToSet(TemplateCandidates)
        \cup SeqToSet(ConfigCandidates) \cup {TemplateTxt}

\* A text file (email_template.txt)
TextFile(text) == <<"text", JS(text)>>

\* _read_json_safely: the parsed document, None when absent or unparseable
_read_json_safely(f) == IF f[1] = "json" THEN f[2] ELSE JNull

\* _read_text_safely: the text, None when absent
_read_text_safely(f) == IF f[1] = "text" THEN f[2] ELSE JNull

\* Python truthiness of a parsed JSON value ("if not data: continue")
Truthy(j) ==
    CASE j[1] = "null" -> FALSE
      [] j[1] = "str" -> j[2] # ""
      [] j[1] = "int" -> j[2] # 0
      [] j[1] = "list" -> j[2] # <<>>
      [] OTHER -> DOMAIN j[2] # {}

\* dict.update-like overwrite of acc by the entries of upd
Overwrite(acc, upd) ==
    [k \in DOMAIN acc \cup DOMAIN upd |-> IF k \in DOMAIN upd THEN upd[k] ELSE acc[k]]

\* One iteration of the loop of _read_legacy_mappings
LegacyMappingsStep(acc, data) ==
    IF ~Truthy(data) \/ data[1] # "dict" THEN acc
    ELSE IF \A k \in DOMAIN data[2] : data[2][k][1] = "list"
    THEN [acc EXCEPT !.mappings =
            Overwrite(@, [k \in DOMAIN data[2] |-> StrList(data[2][k][2])])]
    ELSE LET m == Get(data[2], "mappings", JNull)
             st == Get(data[2], "stopovers", JNull)
         IN  [mappings |->
                IF m[1] = "dict"
                THEN Overwrite(acc.mappings, [k \in DOMAIN m[2] |-> SanitizeEmails(m[2][k])])
                ELSE acc.mappings,
              stopovers |-> IF st[1] = "list" THEN StrList(st[2]) ELSE acc.stopovers]

RECURSIVE LegacyMappingsFrom(_, _, _)
LegacyMappingsFrom(acc, candidates, lg) ==
    IF candidates = <<>> THEN acc
    ELSE LegacyMappingsFrom(
            LegacyMappingsStep(acc, _read_json_safely(lg[Head(candidates)])),
            Tail(candidates), lg)

_read_legacy_mappings(candidates, lg) ==
    LegacyMappingsFrom([mappings |-> <<>>, stopovers |-> <<>>], candidates, lg)

\* An optional string: None, or a value
None == [has |-> FALSE, s |-> ""]
Some(str) == [has |-> TRUE, s |-> str]
OrEmpty(x) == IF x.has THEN x.s ELSE ""

RECURSIVE LegacyTemplatesFrom(_, _)
LegacyTemplatesFrom(candidates, lg) ==
    IF candidates = <<>> THEN [subject |-> None, body |-> None]
    ELSE LET data == _read_json_safely(lg[Head(candidates)])
             subj == IF data[1] = "dict" THEN Get(data[2], "subject", JNull) ELSE JNull
             bod == IF data[1] = "dict" THEN Get(data[2], "body", JNull) ELSE JNull
         IN  IF Truthy(data) /\ data[1] = "dict" /\ (IsStrOrInt(subj) \/ IsStrOrInt(bod))
             THEN [subject |-> IF IsStrOrInt(subj) THEN Some(StrOf(subj)) ELSE None,
                   body |-> IF IsStrOrInt(bod) THEN Some(StrOf(bod)) ELSE None]
             ELSE LegacyTemplatesFrom(Tail(candidates), lg)

_read_legacy_templates(candidates, txt, lg) ==
    LET js == LegacyTemplatesFrom(candidates, lg)
        text == _read_text_safely(lg[txt])
    IN  [subject |-> OrEmpty(js.subject),
         body |-> IF js.body.has THEN js.body.s
                  ELSE IF Truthy(text) THEN text[2] ELSE ""]

RECURSIVE LegacyLastSentFrom(_, _, _)
LegacyLastSentFrom(acc, candidates, lg) ==
    IF candidates = <<>> THEN acc
    ELSE LET data == _read_json_safely(lg[Head(candidates)])
             ls == IF data[1] = "dict" THEN Get(data[2], "last_sent", JNull) ELSE JNull
             found == IF Truthy(data) /\ ls[1] = "dict"
                      THEN [k \in {c \in DOMAIN ls[2] : IsStr(ls[2][c])} |-> ls[2][k][2]]
                      ELSE <<>>
         IN  LegacyLastSentFrom(Overwrite(acc, found), Tail(candidates), lg)

_read_legacy_last_sent(candidates, lg) == LegacyLastSentFrom(<<>>, candidates, lg)

\* list(d.keys()): the keys in the order the file lists them, which the model
\* leaves open: every enumeration of the keys without repetition
KeyOrders(d) ==
    {o \in [1..Cardinality(DOMAIN d) -> DOMAIN d] : SeqToSet(o) = DOMAIN d}

\* A construction that never takes the unified file
UnifiedLoads_never(f) == FALSE

\* The unified file is usable: it exists, parses, is an object, and sanitizes
UnifiedLoads(f) == f[1] = "json" /\ f[2][1] = "dict" /\ ~SanitizeRaises(f[2][2])

\* The configuration the migration builds from the legacy fragments
Migrated(lg, order) ==
    LET ms == _read_legacy_mappings(MappingCandidates, lg)
        tp == _read_legacy_templates(TemplateCandidates, TemplateTxt, lg)
        migrated == [version |-> 1,
                     stopovers |-> IF ms.stopovers # <<>> THEN ms.stopovers ELSE order,
                     mappings |-> ms.mappings,
                     templates |-> tp,
                     last_sent |-> _read_legacy_last_sent(ConfigCandidates, lg)]
    IN  _sanitize_loaded_config(Dump(migrated)[2])

\* after the migration: os.remove of every legacy fragment that exists
Removed(lg) == [p \in DOMAIN lg |-> <<"absent">>]

\* A load that sanitizes the known keys and keeps the other keys of the file
_load_or_migrate_keeping_keys(fs, lg, io, order) ==
    IF UnifiedLoads(fs.disk)
    THEN [cfg |-> Overwrite(fs.disk[2][2], _sanitize_loaded_config(fs.disk[2][2])),
          fs |-> fs, legacy |-> lg, via |-> "unified"]
    ELSE LET cfg == Migrated(lg, order)
         IN  [cfg |-> cfg, fs |-> _save(fs, cfg, io).fs, legacy |-> Removed(lg),
              via |-> "migrated"]

\* A load whose try block is missing: a unified file that is there and does not load
\* ends the construction, with the configuration of __init__ and every file untouched
_load_or_migrate_uncaught(fs, lg, io, order) ==
    IF UnifiedLoads(fs.disk)
    THEN [cfg |-> _sanitize_loaded_config(fs.disk[2][2]), fs |-> fs, legacy |-> lg,
          via |-> "unified"]
    ELSE IF fs.disk # Absent
    THEN [cfg |-> _default_config, fs |-> fs, legacy |-> lg, via |-> "migrated"]
    ELSE LET cfg == Migrated(lg, order)
         IN  [cfg |-> cfg, fs |-> _save(fs, cfg, io).fs, legacy |-> Removed(lg),
              via |-> "migrated"]

\* ConfigManager._load_or_migrate: the configuration in memory and the files it leaves
_load_or_migrate(fs, lg, io, order) ==
    IF UnifiedLoads(fs.disk)
    THEN [cfg |-> _sanitize_loaded_config(fs.disk[2][2]), fs |-> fs, legacy |-> lg,
          via |-> "unified"]
    ELSE LET cfg == Migrated(lg, order)
         IN  [cfg |-> cfg, fs |-> _save(fs, cfg, io).fs, legacy |-> Removed(lg),
              via |-> "migrated"]

\* ------------------------------------------------------------------ the files a run starts from

ValidConfig ==
    [version |-> 1,
     stopovers |-> <<"ABJ">>,
     mappings |-> [c \in {"ABJ"} |-> <<"a@x.com">>],
     templates |-> [subject |-> "s", body |-> "b"],
     last_sent |-> [c \in {"ABJ"} |-> "t1"]]

\* A unified file of an older release: a deprecated key, and a count where a
\* string is expected
DeprecatedDoc ==
    JD(Overwrite(Dump(ValidConfig)[2],
                 [k \in {"check_vars", "stopovers"} |->
                    IF k = "check_vars" THEN JS("x") ELSE JL(<<JS("ABJ"), JN(7), JNull>>)]))

FlatMappingsDoc == JD([c \in {"abj"} |-> JL(<<JS("a@x.com")>>)])
LastSentDoc == JD([k \in {"last_sent"} |-> JD([c \in {"abj"} |-> JS("t1")])])

NoLegacy == [p \in LegacyPaths |-> Absent]
SomeLegacy ==
    [NoLegacy EXCEPT !["pkg/stopover_emails.json"] = JsonFile(FlatMappingsDoc),
                     !["root/config.json"] = JsonFile(LastSentDoc),
                     !["pkg/email_template.txt"] = TextFile("b")]

\* What a process may find when it starts: the unified file and the legacy fragments.
Found(d, lg) == [disk |-> d, legacy |-> lg]
FirstRun == Found(Absent, NoLegacy)
Scenarios ==
    {FirstRun,
     Found(Absent, SomeLegacy),
     Found(Garbage, SomeLegacy),
     Found(JsonFile(Dump(ValidConfig)), NoLegacy),
     Found(JsonFile(DeprecatedDoc), NoLegacy)}

\* ------------------------------------------------------------------ state

NoObservers == [ch \in Channels |-> 0]
NoCall == Call("", "", <<>>, <<>>, "", "", "")
NoLast == [call |-> NoCall, io |-> "ok", saved |-> FALSE, raised |-> FALSE, log |-> <<>>]

Threads == {1, 2}
IdleThread ==
    [pc |-> "idle", call |-> NoCall, mine |-> <<>>, emits |-> <<>>, k |-> 0, snap |-> 0]

\* No getter result is in the caller's hands.
NoHeld == <<"", <<>>, {}, FALSE>>

\* No recipient set is on its way through the codec.
\* rcpt = <<position, <<to, cc, bcc>> as given, the encoded list, the decoded triple>>
NoRcpt == <<"idle", <<>>, <<>>, <<>>>>

\* No document has been chosen.
\* scan = <<position, the document at current_pdf_path, self.stopovers, the
\*          callbacks of the controller invoked since the analysis was asked for>>
NoScan == <<"idle", <<"none">>, <<>>, <<>>>>

\* No ConfigManager has been constructed and nobody is inside instance().
\* inst = <<ConfigManager._instance (0 is None, else the object constructed k-th),
\*          the number of ConfigManager objects constructed,
\*          the objects instance() has returned so far,
\*          per thread <<position in instance(), the object it constructed>>>>
NoInst == <<0, 0, {}, [t \in Threads |-> <<"out", 0>>]>>

\* The state after construction: ConfigManager.__init__ over the files found.
\* hist.written: some _save of this process has replaced the unified file.
Construct(found, outcomes) ==
    \E sc \in found, io \in outcomes :
    \E order \in KeyOrders(_read_legacy_mappings(MappingCandidates, sc.legacy).mappings) :
        LET r == _load_or_migrate(Files(sc.disk, Absent, Absent), sc.legacy, io, order)
        IN  /\ io # "ok" => r.via = "migrated"
            /\ config = r.cfg
            /\ disk = r.fs.disk
            /\ bak = r.fs.bak
            /\ tmp = r.fs.tmp
            /\ legacy = r.legacy
            /\ obs = NoObservers
            /\ last = NoLast
            /\ lock = 0
            /\ th = [t \in Threads |-> IdleThread]
            /\ gen = 0
            /\ seen = <<>>
            /\ hist = [written |-> r.via = "migrated" /\ io \in {"ok", "copy"},
                       faults |-> IF io = "ok" THEN 0 ELSE 1,
                       boots |-> 1]
            /\ held = NoHeld
            /\ rcpt = NoRcpt
            /\ scan = NoScan
            /\ inst = NoInst

Init == Construct(Scenarios, {"ok"})

\* The callbacks that may raise during one call: none, or one of those it invokes
Raisers(o, emits) ==
    {NoCallback} \cup
        UNION {{Callback(ch, k) : k \in 1..o[ch]} : ch \in SeqToSet(emits) \cup {"all"}}

\* What may go wrong with the files during one call: MaxFaults bounds the faults of a run
Faults(h, outcomes) == IF h.faults < MaxFaults THEN outcomes ELSE {"ok"}

\* One call of a setter by the only caller, from entry to return.  `last` holds the
\* call that has just returned until the caller moves on (Continue).
Do(c, in) ==
    /\ last = NoLast
    /\ \E io \in Faults(hist, in.io), raiser \in Raisers(obs, Body(config, c).emits) :
        LET r == Setter(config, Files(disk, bak, tmp), obs, c, io, raiser)
        IN  /\ io # "ok" => r.saved
            /\ config' = r.cfg
            /\ disk' = r.fs.disk
            /\ bak' = r.fs.bak
            /\ tmp' = r.fs.tmp
            /\ last' = [call |-> c, io |-> io, saved |-> r.saved, raised |-> r.raised,
                        log |-> r.log]
            /\ hist' = [hist EXCEPT
                        !.written = @ \/ (r.saved /\ io \in {"ok", "copy"}),
                        !.faults = IF io = "ok" THEN @ ELSE @ + 1]
            /\ UNCHANGED <<legacy, obs, lock, th, gen, seen, held, aside>>

\* The caller goes on after a call has returned.
Continue ==
    /\ last # NoLast
    /\ last' = NoLast
    /\ UNCHANGED <<config, disk, bak, tmp, legacy, obs, lock, th, gen, seen, hist, held, aside>>

\* The arguments the callers of a specification pass.
StopoverLists(cs) == UNION {[1..n -> cs] : n \in 0..MaxStopovers}

DataInputs ==
    [codes |-> Codes,
     lists |-> StopoverLists(Codes),
     emails |-> {<<"a@x.com">>},
     stamps |-> {"t1"},
     subjects |-> {"s"},
     bodies |-> {"b"},
     io |-> {"ok"}]

set_stopovers(in) ==
    \E S \in in.lists : Do(Call("set_stopovers", "", S, <<>>, "", "", ""), in)
add_stopover(in) ==
    \E s \in in.codes : Do(Call("add_stopover", s, <<>>, <<>>, "", "", ""), in)
remove_stopover(in) ==
    \E s \in in.codes : Do(Call("remove_stopover", s, <<>>, <<>>, "", "", ""), in)
set_mapping(in) ==
    \E s \in in.codes, e \in in.emails :
        Do(Call("set_mapping", s, <<>>, e, "", "", ""), in)
remove_mapping(in) ==
    \E s \in in.codes : Do(Call("remove_mapping", s, <<>>, <<>>, "", "", ""), in)
set_subject(in) ==
    \E x \in in.subjects : Do(Call("set_subject", "", <<>>, <<>>, "", x, ""), in)
set_body(in) ==
    \E x \in in.bodies : Do(Call("set_body", "", <<>>, <<>>, "", "", x), in)
set_templates(in) ==
    \E x \in in.subjects, y \in in.bodies :
        Do(Call("set_templates", "", <<>>, <<>>, "", x, y), in)
set_last_sent(in) ==
    \E s \in in.codes, ts \in in.stamps :
        Do(Call("set_last_sent", s, <<>>, <<>>, ts, "", ""), in)
clear_last_sent(in) ==
    \E s \in in.codes : Do(Call("clear_last_sent", s, <<>>, <<>>, "", "", ""), in)
clear_last_sent_normalized(in) ==
    \E s \in in.codes :
        Do(Call("clear_last_sent_normalized", s, <<>>, <<>>, "", "", ""), in)

Next ==
    \/ set_stopovers(DataInputs)
    \/ add_stopover(DataInputs)
    \/ remove_stopover(DataInputs)
    \/ set_mapping(DataInputs)
    \/ remove_mapping(DataInputs)
    \/ set_templates(DataInputs)
    \/ set_last_sent(DataInputs)
    \/ clear_last_sent(DataInputs)
    \/ clear_last_sent_normalized(DataInputs)
    \/ Continue

Spec == Init /\ [][Next]_vars

\* ------------------------------------------------------------------ codes and lists as callers write them

\* One call of a facade method by the only caller, from entry to return.
Serve(c, m) ==
    /\ last = NoLast
    /\ LET r == Run(config, Files(disk, bak, tmp), obs, m.calls)
       IN  /\ config' = r.cfg
           /\ disk' = r.fs.disk
           /\ bak' = r.fs.bak
           /\ tmp' = r.fs.tmp
           /\ last' = [call |-> c, io |-> "ok", saved |-> r.saved, raised |-> FALSE,
                       log |-> r.log]
           /\ hist' = [hist EXCEPT !.written = @ \/ r.saved]
    /\ UNCHANGED <<legacy, obs, lock, th, gen, seen, held, aside>>

add_mapping(in) ==
    \E s \in in.codes, e \in in.addresses :
        Serve(<<"add_mapping", s, e>>, MappingService_add_mapping(config, s, e))

save_config(in) ==
    \E s \in in.codes, on \in BOOLEAN, to \in in.recipients, cc \in in.cc, ts \in in.sent :
        Serve(<<"save_config", s, on, to, cc, <<>>, ts>>,
              StopoverEmailService_save_config(s, on, to, cc, <<>>, ts))

\* Argument lists of at most MaxRepeat entries
ListsOf(xs) == UNION {[1..n -> xs] : n \in 0..MaxRepeat}

\* The callers of SpecCase write one code in either case and may repeat an entry
\* of a list.
CaseInputs ==
    [codes |-> {"ABJ", "abj"},
     lists |-> ListsOf({"ABJ", "abj"}),
     emails |-> {<<"x@y.com">>, <<"x@y.com", "__CC__:cc@y.com">>},
     stamps |-> {"t1"},
     io |-> {"ok"},
     addresses |-> {"x@y.com", "z@y.com"},
     recipients |-> ListsOf({"x@y.com"}),
     cc |-> {<<>>, <<"cc@y.com">>},
     sent |-> {"", "t1"}]

\* The store of SpecCase starts empty: no unified file, no legacy fragment.
InitCase == Construct({FirstRun}, {"ok"})

NextCase ==
    \/ set_stopovers(CaseInputs)
    \/ add_stopover(CaseInputs)
    \/ remove_stopover(CaseInputs)
    \/ set_mapping(CaseInputs)
    \/ remove_mapping(CaseInputs)
    \/ set_last_sent(CaseInputs)
    \/ clear_last_sent(CaseInputs)
    \/ clear_last_sent_normalized(CaseInputs)
    \/ add_mapping(CaseInputs)
    \/ save_config(CaseInputs)
    \/ Continue

SpecCase == InitCase /\ [][NextCase]_vars

\* ------------------------------------------------------------------ observers and failing writes

\* on_mappings_changed, on_stopovers_changed, on_templates_changed,
\* on_last_sent_changed, on_config_changed: append the callback to its list
ObsCount(o) ==
    o["stopovers"] + o["mappings"] + o["templates"] + o["last_sent"] + o["all"]

on_changed(in) ==
    \E ch \in in.channels :
        /\ last = NoLast
        /\ \A t \in Threads : th[t].pc = "idle"
        /\ ObsCount(obs) < MaxObs
        /\ obs' = [obs EXCEPT ![ch] = @ + 1]
        /\ UNCHANGED <<config, disk, bak, tmp, legacy, last, lock, th, gen, seen, hist, held, aside>>

ObsInputs ==
    [codes |-> {"ABJ"},
     lists |-> {<<"ABJ">>},
     emails |-> {<<"a@x.com">>},
     stamps |-> {"t1"},
     subjects |-> {"s"},
     bodies |-> {"b"},
     io |-> IOOutcomes,
     channels |-> {"mappings", "all"}]

\* The store of SpecObs is built over the unified file of an older release.
ObsScenarios == {Found(JsonFile(DeprecatedDoc), NoLegacy)}

InitObs == Construct(ObsScenarios, {"ok"})

NextObs ==
    \/ on_changed(ObsInputs)
    \/ set_stopovers(ObsInputs)
    \/ add_stopover(ObsInputs)
    \/ remove_stopover(ObsInputs)
    \/ set_mapping(ObsInputs)
    \/ remove_mapping(ObsInputs)
    \/ set_subject(ObsInputs)
    \/ set_body(ObsInputs)
    \/ set_templates(ObsInputs)
    \/ set_last_sent(ObsInputs)
    \/ clear_last_sent(ObsInputs)
    \/ clear_last_sent_normalized(ObsInputs)
    \/ Continue

SpecObs == InitObs /\ [][NextObs]_vars

\* ------------------------------------------------------------------ two threads

\* A setter that does not take the lock
LockIgnored(l, t) == TRUE

\* "with self._lock" on a threading.Lock: free
LockFree_not_reentrant(l, t) == l = 0

\* "with self._lock" (an RLock): free, or already held by the thread itself
LockFree(l, t) == l = 0 \/ l = t

At(t, pc) == th[t].pc = pc
Goto(t, pc) == th' = [th EXCEPT ![t].pc = pc]
Fs == Files(disk, bak, tmp)
SetFs(fs) == disk' = fs.disk /\ bak' = fs.bak /\ tmp' = fs.tmp

\* A file operation may fail while the faults of the run are not used up.
MayFail == hist.faults < MaxFaults
Fault == hist' = [hist EXCEPT !.faults = @ + 1]

\* A thread enters a setter: it takes the lock and mutates self._config.
\* th[t].mine remembers the configuration its mutation produced.
Mutate(t, in) ==
    \E c \in in.calls :
        LET b == Body(config, c)
        IN  /\ At(t, "idle")
            /\ gen < MaxGen
            /\ LockFree(lock, t)
            /\ lock' = t
            /\ config' = b.cfg
            /\ gen' = gen + 1
            /\ th' = [th EXCEPT ![t] = [pc |-> IF b.save THEN "mkdir" ELSE "release",
                                        call |-> c, mine |-> b.cfg, emits |-> b.emits,
                                        k |-> 1, snap |-> 0]]
            /\ UNCHANGED <<disk, bak, tmp, legacy, obs, last, seen, hist, held, aside>>

\* _ensure_dir(path); a failure leaves _atomic_write_json and is swallowed by _save
Mkdir(t) ==
    /\ At(t, "mkdir")
    /\ \/ Goto(t, "copy") /\ UNCHANGED hist
       \/ MayFail /\ Fault /\ Goto(t, "release")
    /\ UNCHANGED <<config, disk, bak, tmp, legacy, obs, last, lock, gen, seen, held, aside>>

\* if os.path.exists(path): shutil.copy2(path, bak_path), failure ignored
Copy(t) ==
    /\ At(t, "copy")
    /\ \/ SetFs(CopyBak(Fs, "ok")) /\ UNCHANGED hist
       \/ MayFail /\ Fault /\ SetFs(CopyBak(Fs, "copy"))
    /\ Goto(t, "open")
    /\ UNCHANGED <<config, legacy, obs, last, lock, gen, seen, held, aside>>

\* open(tmp_path, "w"): the .tmp exists and is being written
Open(t) ==
    /\ At(t, "open")
    /\ \/ SetFs(DumpTmp(Fs, Dump(config), "dump")) /\ Goto(t, "dump") /\ UNCHANGED hist
       \/ MayFail /\ Fault /\ Goto(t, "cleanup") /\ UNCHANGED <<disk, bak, tmp>>
    /\ UNCHANGED <<config, legacy, obs, last, lock, gen, seen, held, aside>>

\* json.dump(data, f) and the close of the file
DumpAll(t) ==
    /\ At(t, "dump")
    /\ \/ SetFs(DumpTmp(Fs, Dump(config), "ok")) /\ Goto(t, "replace") /\ UNCHANGED hist
       \/ MayFail /\ Fault /\ Goto(t, "cleanup") /\ UNCHANGED <<disk, bak, tmp>>
    /\ UNCHANGED <<config, legacy, obs, last, lock, gen, seen, held, aside>>

\* os.replace(tmp_path, path)
Replace(t) ==
    /\ At(t, "replace")
    /\ \/ /\ SetFs(ReplaceTmp(Fs))
          /\ hist' = [hist EXCEPT !.written = TRUE]
       \/ MayFail /\ Fault /\ UNCHANGED <<disk, bak, tmp>>
    /\ Goto(t, "cleanup")
    /\ UNCHANGED <<config, legacy, obs, last, lock, gen, seen, held, aside>>

\* finally: remove the .tmp if it is still there
CleanupTmp(t) ==
    /\ At(t, "cleanup")
    /\ SetFs(Cleanup(Fs))
    /\ Goto(t, "release")
    /\ UNCHANGED <<config, legacy, obs, last, lock, gen, seen, hist, held, aside>>

\* A setter that notifies inside "with self._lock"
Release_after_notify(t) ==
    /\ At(t, "release")
    /\ Goto(t, "emit")
    /\ UNCHANGED <<config, disk, bak, tmp, legacy, obs, last, lock, gen, seen, hist, held, aside>>

\* The end of "with self._lock"
Release(t) ==
    /\ At(t, "release")
    /\ lock' = 0
    /\ Goto(t, "emit")
    /\ UNCHANGED <<config, disk, bak, tmp, legacy, obs, last, gen, seen, hist, held, aside>>

\* The thread has finished one _emit_<domain>: the next one, or the return
Emitted(r) ==
    IF Len(r.emits) > 1 THEN [r EXCEPT !.pc = "emit", !.emits = Tail(@), !.k = 1]
    ELSE IdleThread

\* The argument of the next callback is evaluated: self.get_<domain>() for the
\* k-th callback of the channel, or snapshot = self.get_all() once all of them ran.
\* The getters take the lock for the time of the copy.
Capture(t) ==
    /\ At(t, "emit")
    /\ LockFree(lock, t)
    /\ th' = [th EXCEPT ![t] =
                IF th[t].k <= obs[Head(th[t].emits)]
                THEN [@ EXCEPT !.pc = "call", !.snap = gen]
                ELSE IF obs["all"] > 0
                     THEN [@ EXCEPT !.pc = "call_all", !.snap = gen, !.k = 1]
                     ELSE Emitted(@)]
    /\ UNCHANGED <<config, disk, bak, tmp, legacy, obs, last, lock, gen, seen, hist, held, aside>>

\* cb(snapshot) for the k-th callback of the domain channel
Deliver(t) ==
    /\ At(t, "call")
    /\ seen' = Put(seen, Callback(Head(th[t].emits), th[t].k), th[t].snap)
    /\ th' = [th EXCEPT ![t].pc = "emit", ![t].k = @ + 1]
    /\ UNCHANGED <<config, disk, bak, tmp, legacy, obs, last, lock, gen, hist, held, aside>>

\* cb(snapshot) for the k-th global callback, all with the snapshot taken once
DeliverAll(t) ==
    /\ At(t, "call_all")
    /\ seen' = Put(seen, Callback("all", th[t].k), th[t].snap)
    /\ th' = [th EXCEPT ![t] = IF th[t].k < obs["all"] THEN [@ EXCEPT !.k = @ + 1]
                                ELSE Emitted(@)]
    /\ UNCHANGED <<config, disk, bak, tmp, legacy, obs, last, lock, gen, hist, held, aside>>

\* The process is killed at any point, and the next process constructs its store
\* over the files that are left (ConfigManager.__init__).
Restart ==
    /\ MayFail
    /\ \E order \in KeyOrders(_read_legacy_mappings(MappingCandidates, legacy).mappings) :
        LET r == _load_or_migrate(Fs, legacy, "ok", order)
        IN  /\ config' = r.cfg
            /\ SetFs(r.fs)
            /\ legacy' = r.legacy
            /\ hist' = [written |-> r.via = "migrated", faults |-> hist.faults + 1,
                        boots |-> hist.boots + 1]
    /\ obs' = NoObservers
    /\ lock' = 0
    /\ th' = [t \in Threads |-> IdleThread]
    /\ seen' = <<>>
    /\ UNCHANGED <<last, gen, held, aside>>

ConcCalls ==
    {Call("set_mapping", "ABJ", <<>>, <<"a@x.com">>, "", "", ""),
     Call("remove_stopover", "ABJ", <<>>, <<>>, "", "", "")}

ConcInputs == [calls |-> ConcCalls, channels |-> {"mappings", "all"}]

ConcScenarios == {FirstRun, Found(JsonFile(Dump(ValidConfig)), NoLegacy)}

InitConc == Construct(ConcScenarios, {"ok"})

NextConc ==
    \/ on_changed(ConcInputs)
    \/ \E t \in Threads :
        \/ Mutate(t, ConcInputs)
        \/ Mkdir(t)
        \/ Copy(t)
        \/ Open(t)
        \/ DumpAll(t)
        \/ Replace(t)
        \/ CleanupTmp(t)
        \/ Release(t)
        \/ Capture(t)
        \/ Deliver(t)
        \/ DeliverAll(t)
    \/ Restart

SpecConc == InitConc /\ [][NextConc]_vars

\* ------------------------------------------------------------------ a caller that keeps what a getter returned

Getters == {"all", "stopovers", "mappings", "templates", "last_sent"}

Getter(name, cfg) ==
    CASE name = "all" -> get_all(cfg)
      [] name = "stopovers" -> get_stopovers(cfg)
      [] name = "mappings" -> get_mappings(cfg)
      [] name = "templates" -> get_templates(cfg)
      [] OTHER -> get_last_sent(cfg)

\* The lists and dicts inside a returned value, by their path in the value
Containers(name, val) ==
    CASE name = "mappings" -> {<<>>} \cup {<<k>> : k \in DOMAIN val}
      [] name = "all" ->
            {<<>>, <<"stopovers">>, <<"mappings">>, <<"templates">>, <<"last_sent">>}
                \cup {<<"mappings", k>> : k \in DOMAIN val.mappings}
      [] OTHER -> {<<>>}

\* x.clear() on the list or dict at a path of a value
ClearAt(v, p) ==
    IF p = <<>> THEN <<>>
    ELSE IF Len(p) = 1 THEN [v EXCEPT ![p[1]] = <<>>]
    ELSE [v EXCEPT ![p[1]][p[2]] = <<>>]

\* The path in self._config of the container at path p of what a getter returned
StorePath(name, p) == IF name = "all" THEN p ELSE <<name>> \o p

\* The caller calls a getter and keeps the value:
\* held = <<getter, value, paths shared with the store, mutated by the caller>>
Keep(in) ==
    \E name \in in.getters :
        /\ last = NoLast
        /\ held = NoHeld
        /\ held' = <<name, Getter(name, config)[1], Getter(name, config)[2], FALSE>>
        /\ UNCHANGED <<config, disk, bak, tmp, legacy, obs, last, lock, th, gen, seen, hist, aside>>

\* The caller empties a list or a dict of the value it holds, at any depth.  A
\* container that is the store's own object is emptied in the store as well.
MutateHeld ==
    /\ held[1] # ""
    /\ ~held[4]
    /\ \E p \in Containers(held[1], held[2]) :
        /\ held' = <<held[1], ClearAt(held[2], p), held[3], TRUE>>
        /\ config' = IF p \in held[3] THEN ClearAt(config, StorePath(held[1], p))
                      ELSE config
    /\ UNCHANGED <<disk, bak, tmp, legacy, obs, last, lock, th, gen, seen, hist, aside>>

\* The caller lets go of the value.
Drop ==
    /\ held # NoHeld
    /\ held' = NoHeld
    /\ UNCHANGED <<config, disk, bak, tmp, legacy, obs, last, lock, th, gen, seen, hist, aside>>

GetInputs ==
    [codes |-> {"abj", "DKR"},
     lists |-> {<<"DKR">>},
     emails |-> {<<"a@x.com">>},
     stamps |-> {"t2", ""},
     io |-> {"ok"},
     getters |-> Getters]

InitGet == Construct({Found(JsonFile(Dump(ValidConfig)), NoLegacy)}, {"ok"})

NextGet ==
    \/ Keep(GetInputs)
    \/ MutateHeld
    \/ Drop
    \/ set_stopovers(GetInputs)
    \/ set_mapping(GetInputs)
    \/ set_last_sent(GetInputs)
    \/ Continue

SpecGet == InitGet /\ [][NextGet]_vars

\* ------------------------------------------------------------------ processes over legacy fragments

\* A process starts: ConfigManager.__init__ over the files that are there.  The
\* write of a migration may fail.
Boot(in) ==
    /\ hist.boots < MaxBoots
    /\ last = NoLast
    /\ \E io \in Faults(hist, in.io) :
       \E order \in KeyOrders(_read_legacy_mappings(MappingCandidates, legacy).mappings) :
        LET r == _load_or_migrate(Fs, legacy, io, order)
        IN  /\ io # "ok" => r.via = "migrated"
            /\ config' = r.cfg
            /\ SetFs(r.fs)
            /\ legacy' = r.legacy
            /\ hist' = [written |-> r.via = "migrated" /\ io \in {"ok", "copy"},
                        faults |-> IF io = "ok" THEN hist.faults ELSE hist.faults + 1,
                        boots |-> hist.boots + 1]
    /\ obs' = NoObservers
    /\ lock' = 0
    /\ th' = [t \in Threads |-> IdleThread]
    /\ seen' = <<>>
    /\ held' = NoHeld
    /\ UNCHANGED <<last, gen, aside>>

\* A store exists: the setters have something to act on.
Running == hist.boots > 0

\* Legacy fragments as older releases left them.
FlatDoc == JD([c \in {"ABJ"} |-> JL(<<JS("a@x.com")>>)])
NestedDoc ==
    JD([k \in {"mappings", "stopovers"} |->
        IF k = "mappings" THEN JD([c \in {"ABJ"} |-> JL(<<JS("b@x.com")>>)])
        ELSE JL(<<JS("ABJ"), JS("DKR")>>)])
StopoversDoc ==
    JD([k \in {"mappings", "stopovers"} |->
        IF k = "mappings" THEN JD(<<>>) ELSE JL(<<JS("DKR")>>)])
SubjectDoc == JD([k \in {"subject"} |-> JS("s")])
TemplatesDoc == JD([k \in {"subject", "body"} |-> JS("b2")])
SentDoc(ts) == JD([k \in {"last_sent"} |-> JD([c \in {"ABJ"} |-> JS(ts)])])

\* A unified file that parses and still does not load: not an object, or a version
\* that int() rejects
ListDoc == JL(<<>>)
BadVersionDoc == JD([k \in {"version"} |-> JNull])

MigInputs ==
    [codes |-> {"ABJ"},
     emails |-> {<<"z@x.com">>},
     io |-> IOOutcomes]

\* Before the first process starts: the unified file and the legacy fragments that
\* are on disk.
InitMig ==
    /\ \E d \in {Absent, Garbage, JsonFile(ListDoc), JsonFile(BadVersionDoc),
                  JsonFile(Dump(ValidConfig))},
          m1 \in {Absent, Garbage, JsonFile(FlatDoc)},
          m2 \in {Absent, JsonFile(NestedDoc)},
          m3 \in {Absent, JsonFile(StopoversDoc)},
          t1 \in {Absent, JsonFile(SubjectDoc)},
          t2 \in {Absent, JsonFile(TemplatesDoc)},
          tx \in {Absent, TextFile("b")},
          c1 \in {Absent, JsonFile(SentDoc("t1"))},
          c2 \in {Absent, JsonFile(SentDoc("t2"))} :
        /\ disk = d
        /\ legacy = [NoLegacy EXCEPT !["pkg/stopover_emails.json"] = m1,
                                     !["root/stopover_emails.json"] = m2,
                                     !["pkg/mappings.json"] = m3,
                                     !["pkg/templates.json"] = t1,
                                     !["root/templates.json"] = t2,
                                     !["pkg/email_template.txt"] = tx,
                                     !["pkg/config.json"] = c1,
                                     !["root/config.json"] = c2]
    /\ config = _default_config
    /\ bak = Absent
    /\ tmp = Absent
    /\ obs = NoObservers
    /\ last = NoLast
    /\ lock = 0
    /\ th = [t \in Threads |-> IdleThread]
    /\ gen = 0
    /\ seen = <<>>
    /\ hist = [written |-> FALSE, faults |-> 0, boots |-> 0]
    /\ held = NoHeld
    /\ rcpt = NoRcpt
    /\ scan = NoScan
    /\ inst = NoInst

NextMig ==
    \/ Boot(MigInputs)
    \/ Running /\ set_mapping(MigInputs)
    \/ Running /\ Continue

SpecMig == InitMig /\ [][NextMig]_vars

\* ------------------------------------------------------------------ the detection engine

\* s[i] as a string of one character; "" outside the text
Char(s, i) == IF 1 <= i /\ i <= Len(s) THEN SubSeq(s, i, i) ELSE ""

UpperCase == "ABCDEFGHIJKLMNOPQRSTUVWXYZ"
LowerCase == "abcdefghijklmnopqrstuvwxyz"

\* [A-Z] under re.IGNORECASE; str.isalpha() on one character
IsLetter(c) == \E k \in 1..26 : c = Char(UpperCase, k) \/ c = Char(LowerCase, k)

\* \w: a letter, a digit or the underscore
IsWord(c) == IsLetter(c) \/ \E k \in 1..11 : c = Char("0123456789_", k)

\* \s
IsSpace(c) == c = " "

\* str.upper(), character by character
UpperChar(c) ==
    IF \E k \in 1..26 : c = Char(LowerCase, k)
    THEN Char(UpperCase, CHOOSE k \in 1..26 : c = Char(LowerCase, k))
    ELSE c

RECURSIVE StrUpper(_)
StrUpper(s) == IF s = "" THEN s ELSE UpperChar(Char(s, 1)) \o StrUpper(SubSeq(s, 2, Len(s)))

\* \b between s[i-1] and s[i]
WordBoundary(s, i) == IsWord(Char(s, i - 1)) # IsWord(Char(s, i))

\* the literal `word` at s[i..], whatever the case of the text
LiteralAt(s, i, word) ==
    /\ i >= 1
    /\ i + Len(word) - 1 <= Len(s)
    /\ StrUpper(SubSeq(s, i, i + Len(word) - 1)) = StrUpper(word)

\* ([A-Z]{3}) at s[i..i+2]
ThreeLetters(s, i) == \A k \in 0..2 : IsLetter(Char(s, i + k))

\* "Bilan\b" at s[i..]
BilanAt(s, i) == LiteralAt(s, i, "Bilan") /\ WordBoundary(s, i + 5)

\* \s*: the first position from i on that holds no whitespace
RECURSIVE SkipSpaces(_, _)
SkipSpaces(s, i) == IF IsSpace(Char(s, i)) THEN SkipSpaces(s, i + 1) ELSE i

\* DetectionEngine.STOPOVER_PATTERNS, in the order of the list
STOPOVER_PATTERNS == <<"spaced", "bracketed", "plain">>

\* STOPOVER_PATTERNS in the other order: the bracketed form before the spaced one
STOPOVER_PATTERNS_bracketed_first == <<"bracketed", "spaced", "plain">>

\* pattern.match at position i: the position of group 1, or 0 when there is no match
\*   spaced     \b([A-Z]{3})\s*-\s*Bilan\b
\*   bracketed  \[([A-Z]{3})\]-Bilan\b
\*   plain      ([A-Z]{3})-Bilan\b
GroupAt(pattern, s, i) ==
    CASE pattern = "spaced" ->
            LET dash == SkipSpaces(s, i + 3)
            IN  IF /\ WordBoundary(s, i)
                   /\ ThreeLetters(s, i)
                   /\ Char(s, dash) = "-"
                   /\ BilanAt(s, SkipSpaces(s, dash + 1))
                THEN i ELSE 0
      [] pattern = "bracketed" ->
            IF /\ Char(s, i) = "["
               /\ ThreeLetters(s, i + 1)
               /\ Char(s, i + 4) = "]"
               /\ Char(s, i + 5) = "-"
               /\ BilanAt(s, i + 6)
            THEN i + 1 ELSE 0
      [] OTHER ->
            IF ThreeLetters(s, i) /\ Char(s, i + 3) = "-" /\ BilanAt(s, i + 4)
            THEN i ELSE 0

\* pattern.search(text): group 1 of the leftmost match, None when nothing matches
Search(pattern, s) ==
    LET hits == {i \in 1..Len(s) : GroupAt(pattern, s, i) # 0}
    IN  IF hits = {} THEN None
        ELSE LET first == CHOOSE i \in hits : \A j \in hits : i <= j
                 g == GroupAt(pattern, s, first)
             IN  Some(SubSeq(s, g, g + 2))

\* the loop of extract_stopover_code over the patterns that are left
RECURSIVE ExtractFrom(_, _)
ExtractFrom(patterns, text) ==
    IF patterns = <<>> THEN None
    ELSE LET match == Search(Head(patterns), text)
             code == StrUpper(match.s)
         IN  IF match.has /\ Len(code) = 3 /\ \A k \in 1..Len(code) : IsLetter(Char(code, k))
             THEN Some(code)
             ELSE ExtractFrom(Tail(patterns), text)

\* DetectionEngine.extract_stopover_code
extract_stopover_code(text) ==
    IF text = "" THEN None ELSE ExtractFrom(STOPOVER_PATTERNS, text)

\* DetectionEngine.contains_objectives
contains_objectives(text) ==
    text # "" /\ \E i \in 1..Len(text) : LiteralAt(text, i, "objectifs")

\* DetectionEngine.is_stopover_page
is_stopover_page(text) == extract_stopover_code(text).has /\ contains_objectives(text)

\* A document as fitz sees it: one that cannot be opened, or its pages, each a text
\* or a page whose get_text() raises.
Unopenable == <<"unopenable">>
Pdf(pages) == <<"pdf", pages>>
Text(s) == <<"text", s>>
Unreadable == <<"unreadable">>
PagesOf(doc) == doc[2]

\* models.stopover.Stopover
Stopover(code, page_number) == <<code, page_number>>

\* What a call gives its caller: a value, or an exception
Returned(v) == <<"returned", v>>
Raised == <<"raised", <<>>>>

\* A scan that reports every page a code is extracted from, keyword or not
RECURSIVE AnalyzeFrom_code_only(_, _, _)
AnalyzeFrom_code_only(stopovers, pages, page_num) ==
    IF page_num > Len(pages) THEN Returned(stopovers)
    ELSE IF pages[page_num] = Unreadable THEN Raised
    ELSE LET code == extract_stopover_code(pages[page_num][2])
         IN  AnalyzeFrom_code_only(IF code.has
                                   THEN Append(stopovers, Stopover(code.s, page_num))
                                   ELSE stopovers,
                                   pages, page_num + 1)

\* A scan that numbers the pages as it indexes them, from 0
RECURSIVE AnalyzeFrom_zero_based(_, _, _)
AnalyzeFrom_zero_based(stopovers, pages, page_num) ==
    IF page_num > Len(pages) THEN Returned(stopovers)
    ELSE IF pages[page_num] = Unreadable THEN Raised
    ELSE LET text == pages[page_num][2]
             code == extract_stopover_code(text)
         IN  AnalyzeFrom_zero_based(IF code.has /\ contains_objectives(text)
                                    THEN Append(stopovers, Stopover(code.s, page_num - 1))
                                    ELSE stopovers,
                                    pages, page_num + 1)

\* the loop of analyze_pdf from page page_num on
RECURSIVE AnalyzeFrom(_, _, _)
AnalyzeFrom(stopovers, pages, page_num) ==
    IF page_num > Len(pages) THEN Returned(stopovers)
    ELSE IF pages[page_num] = Unreadable THEN Raised
    ELSE LET text == pages[page_num][2]
             code == extract_stopover_code(text)
         IN  AnalyzeFrom(IF code.has /\ contains_objectives(text)
                         THEN Append(stopovers, Stopover(code.s, page_num))
                         ELSE stopovers,
                         pages, page_num + 1)

\* An analysis that returns what it has when the document does not open
analyze_pdf_swallowing(doc) ==
    IF doc = Unopenable THEN Returned(<<>>) ELSE AnalyzeFrom(<<>>, PagesOf(doc), 1)

\* DetectionEngine.analyze_pdf: every exception leaves as a ValueError
analyze_pdf(doc) == IF doc = Unopenable THEN Raised ELSE AnalyzeFrom(<<>>, PagesOf(doc), 1)

\* PDFProcessor.analyze_pdf
PDFProcessor_analyze_pdf(doc) == analyze_pdf(doc)

\* ------------------------------------------------------------------ the controller's analysis

\* AppController.set_pdf_path with the path of a file that is there and named .pdf
set_pdf_path(in) ==
    /\ scan[1] \in {"idle", "ready", "done"}
    /\ \E doc \in in.docs : scan' = <<"ready", doc, <<>>, <<>>>>
    /\ UNCHANGED <<store, rcpt, inst>>

\* AppController.analyze_pdf: on_progress_start, then the thread is started
AppController_analyze_pdf ==
    /\ scan[1] \in {"ready", "done"}
    /\ scan' = <<"running", scan[2], scan[3], <<<<"on_progress_start", <<>>>>>>>>
    /\ UNCHANGED <<store, rcpt, inst>>

\* AppController._analyze_pdf_thread, from start to end
_analyze_pdf_thread ==
    /\ scan[1] = "running"
    /\ LET r == PDFProcessor_analyze_pdf(scan[2])
       IN  scan' =
            IF r = Raised
            THEN <<"done", scan[2], scan[3],
                   scan[4] \o <<<<"on_status_update", "error">>, <<"on_progress_stop", <<>>>>>>>>
            ELSE <<"done", scan[2], r[2],
                   scan[4] \o <<<<"on_status_update", Len(r[2])>>,
                                <<"on_analysis_complete", r[2]>>,
                                <<"on_progress_stop", <<>>>>>>>>
    /\ UNCHANGED <<store, rcpt, inst>>

\* Page texts: the bracketed form, the bracketed form with a spaced form for another
\* code after it and before it, lower case, a code without the keyword, the
\* keyword without a code, a longer word after the marker, and no text at all.
PageTexts ==
    {"[ABJ]-Bilan objectifs",
     "[ABJ]-Bilan DKR - Bilan objectifs",
     "DKR - Bilan Objectifs [ABJ]-Bilan",
     "abj-bilan OBJECTIFS",
     "DKR-Bilan",
     "Objectifs",
     "ABJ-Bilans objectifs",
     ""}

ScanInputs ==
    [docs |-> {Unopenable} \cup
              {Pdf(pages) : pages \in
                UNION {[1..n -> {Text(t) : t \in PageTexts} \cup {Unreadable}] :
                       n \in 0..MaxPages}}]

InitScan == Construct({FirstRun}, {"ok"})

NextScan ==
    \/ set_pdf_path(ScanInputs)
    \/ AppController_analyze_pdf
    \/ _analyze_pdf_thread

SpecScan == InitScan /\ [][NextScan]_vars

\* ------------------------------------------------------------------ the accessor of the instance

\* A thread inside ConfigManager.instance() (get_config_manager() is a call of it):
\* the interpreter may switch threads after the test, during the construction,
\* after the assignment and before the final read.
InstAt(t, pc) == inst[4][t][1] = pc
InstGoto(t, pc, obj) == [inst[4] EXCEPT ![t] = <<pc, obj>>]

\* "if cls._instance is None"
instance_test(t) ==
    /\ InstAt(t, "out")
    /\ inst' = <<inst[1], inst[2], inst[3],
                 InstGoto(t, IF inst[1] = 0 THEN "construct" ELSE "return", 0)>>
    /\ UNCHANGED <<store, rcpt, scan>>

\* "ConfigManager()": __init__ runs load-or-migrate over the files that are there
instance_construct(t) ==
    /\ InstAt(t, "construct")
    /\ \E order \in KeyOrders(_read_legacy_mappings(MappingCandidates, legacy).mappings) :
        LET r == _load_or_migrate(Fs, legacy, "ok", order)
        IN  /\ config' = r.cfg
            /\ SetFs(r.fs)
            /\ legacy' = r.legacy
    /\ inst' = <<inst[1], inst[2] + 1, inst[3], InstGoto(t, "assign", inst[2] + 1)>>
    /\ UNCHANGED <<obs, last, lock, th, gen, seen, hist, held, rcpt, scan>>

\* "cls._instance = ..."
instance_assign(t) ==
    /\ InstAt(t, "assign")
    /\ inst' = <<inst[4][t][2], inst[2], inst[3], InstGoto(t, "return", inst[4][t][2])>>
    /\ UNCHANGED <<store, rcpt, scan>>

\* "return cls._instance"
instance_return(t) ==
    /\ InstAt(t, "return")
    /\ inst' = <<inst[1], inst[2], inst[3] \cup {inst[1]}, InstGoto(t, "out", 0)>>
    /\ UNCHANGED <<store, rcpt, scan>>

\* Before any caller has asked for the instance: the files that are on disk.
InitInst ==
    /\ disk \in {Absent, Garbage, JsonFile(Dump(ValidConfig))}
    /\ legacy \in {NoLegacy, SomeLegacy}
    /\ config = _default_config
    /\ bak = Absent
    /\ tmp = Absent
    /\ obs = NoObservers
    /\ last = NoLast
    /\ lock = 0
    /\ th = [t \in Threads |-> IdleThread]
    /\ gen = 0
    /\ seen = <<>>
    /\ hist = [written |-> FALSE, faults |-> 0, boots |-> 0]
    /\ held = NoHeld
    /\ rcpt = NoRcpt
    /\ scan = NoScan
    /\ inst = NoInst

NextInst ==
    \E t \in Threads :
        \/ instance_test(t)
        \/ instance_construct(t)
        \/ instance_assign(t)
        \/ instance_return(t)

SpecInst == InitInst /\ [][NextInst]_vars

\* ------------------------------------------------------------------ the recipient codec

\* A caller hands three lists of addresses to _encode_recipients.
Encode(in) ==
    /\ rcpt[1] = "idle"
    /\ \E to \in in.to, cc \in in.cc, bcc \in in.bcc :
        rcpt' = <<"encoded", <<to, cc, bcc>>, _encode_recipients(to, cc, bcc), <<>>>>
    /\ UNCHANGED <<store, scan, inst>>

\* The encoded list comes back (it is stored verbatim in between) and is decoded.
Decode ==
    /\ rcpt[1] = "encoded"
    /\ rcpt' = <<"decoded", rcpt[2], rcpt[3], _decode_recipients(rcpt[3])>>
    /\ UNCHANGED <<store, scan, inst>>

\* The caller is done with the recipient set.
Forget ==
    /\ rcpt[1] = "decoded"
    /\ rcpt' = NoRcpt
    /\ UNCHANGED <<store, scan, inst>>

\* Addresses as a form may hand them over: plain, empty, blank, padded, and one that
\* begins with a reserved tag.
CodecInputs ==
    [to |-> ListsOf({"x@y.com", "z@y.com", "", " ", " x@y.com", "__CC__:x@y.com"}),
     cc |-> ListsOf({"c@y.com", "d@y.com", " "}),
     bcc |-> ListsOf({"b@y.com", "e@y.com", ""})]

InitCodec == Construct({FirstRun}, {"ok"})

NextCodec ==
    \/ Encode(CodecInputs)
    \/ Decode
    \/ Forget

SpecCodec == InitCodec /\ [][NextCodec]_vars

\* ------------------------------------------------------------------ replace_all_config

\* normalized_stopovers = [str(s).upper() for s in (stopovers or [])]
normalized_stopovers(stopovers) == [i \in 1..Len(stopovers) |-> Upper(stopovers[i])]

\* normalized_mappings that keeps the keys that are no stopover
RECURSIVE normalized_mappings_unpruned(_, _)
normalized_mappings_unpruned(items, ns) ==
    IF items = <<>> THEN <<>>
    ELSE Put(normalized_mappings_unpruned(SubSeq(items, 1, Len(items) - 1), ns),
             Upper(items[Len(items)][1]), items[Len(items)][2])

\* normalized_mappings: the items of the dict in their order, a key kept when its
\* upper case is a stopover, a later item replacing an earlier one of the same key
RECURSIVE normalized_mappings(_, _)
normalized_mappings(items, ns) ==
    IF items = <<>> THEN <<>>
    ELSE LET rest == normalized_mappings(SubSeq(items, 1, Len(items) - 1), ns)
             ku == Upper(items[Len(items)][1])
         IN  IF ku \in SeqToSet(ns) THEN Put(rest, ku, items[Len(items)][2]) ELSE rest

\* normalized_last: as normalized_mappings, and only the values that are strings
RECURSIVE normalized_last(_, _)
normalized_last(items, ns) ==
    IF items = <<>> THEN <<>>
    ELSE LET rest == normalized_last(SubSeq(items, 1, Len(items) - 1), ns)
             ku == Upper(items[Len(items)][1])
             v == items[Len(items)][2]
         IN  IF ku \in SeqToSet(ns) /\ IsStr(v) THEN Put(rest, ku, v[2]) ELSE rest

\* A thread calls replace_all_config(stopovers, mappings, last_sent): the three
\* normalized values are computed before the lock is asked for.
replace_all_config(t, in) ==
    \E a \in in.replacements :
        LET ns == normalized_stopovers(a[1])
        IN  /\ At(t, "idle")
            /\ gen < MaxGen
            /\ th' = [th EXCEPT ![t] =
                        [pc |-> "ra_lock", call |-> <<"replace_all_config">> \o a,
                         mine |-> [stopovers |-> ns,
                                   mappings |-> normalized_mappings(a[2], ns),
                                   last_sent |-> normalized_last(a[3], ns)],
                         emits |-> <<"stopovers", "mappings", "last_sent">>,
                         k |-> 1, snap |-> 0]]
            /\ UNCHANGED <<config, disk, bak, tmp, legacy, obs, last, lock, gen, seen, hist,
                           held, aside>>

\* replace_all_config that assigns without the lock
ra_acquire_unlocked(t) ==
    /\ At(t, "ra_lock")
    /\ gen' = gen + 1
    /\ Goto(t, "ra_stopovers")
    /\ UNCHANGED <<config, disk, bak, tmp, legacy, obs, last, lock, seen, hist, held, aside>>

\* with mgr._lock:
ra_acquire(t) ==
    /\ At(t, "ra_lock")
    /\ LockFree(lock, t)
    /\ lock' = t
    /\ gen' = gen + 1
    /\ Goto(t, "ra_stopovers")
    /\ UNCHANGED <<config, disk, bak, tmp, legacy, obs, last, seen, hist, held, aside>>

\* mgr._config["stopovers"] = normalized_stopovers
ra_stopovers(t) ==
    /\ At(t, "ra_stopovers")
    /\ config' = [config EXCEPT !.stopovers = th[t].mine.stopovers]
    /\ Goto(t, "ra_mappings")
    /\ UNCHANGED <<disk, bak, tmp, legacy, obs, last, lock, gen, seen, hist, held, aside>>

\* mgr._config["mappings"] = normalized_mappings
ra_mappings(t) ==
    /\ At(t, "ra_mappings")
    /\ config' = [config EXCEPT !.mappings = th[t].mine.mappings]
    /\ Goto(t, "ra_last_sent")
    /\ UNCHANGED <<disk, bak, tmp, legacy, obs, last, lock, gen, seen, hist, held, aside>>

\* mgr._config["last_sent"] = normalized_last
ra_last_sent(t) ==
    /\ At(t, "ra_last_sent")
    /\ config' = [config EXCEPT !.last_sent = th[t].mine.last_sent]
    /\ Goto(t, "ra_save")
    /\ UNCHANGED <<disk, bak, tmp, legacy, obs, last, lock, gen, seen, hist, held, aside>>

\* mgr._save(), the one write of the call; a failure is swallowed
ra_save(t) ==
    /\ At(t, "ra_save")
    /\ \E io \in Faults(hist, IOOutcomes) :
        /\ SetFs(_save(Fs, config, io).fs)
        /\ hist' = [hist EXCEPT !.written = @ \/ io \in {"ok", "copy"},
                                !.faults = IF io = "ok" THEN @ ELSE @ + 1]
    /\ Goto(t, "release")
    /\ UNCHANGED <<config, legacy, obs, last, lock, gen, seen, held, aside>>

\* Another caller calls get_all(), which takes the lock for the time of the copy,
\* and keeps the value.
get_all_kept ==
    /\ held = NoHeld
    /\ \E t \in Threads : At(t, "idle") /\ LockFree(lock, t)
    /\ held' = <<"all", get_all(config)[1], {}, FALSE>>
    /\ UNCHANGED <<config, disk, bak, tmp, legacy, obs, last, lock, th, gen, seen, hist, aside>>

\* The arguments of replace_all_config: stopovers, the items of mappings and the
\* items of last_sent, in lower case, with a key that is no stopover and with a
\* stamp that is no string.
Replacements ==
    {<< <<"dkr">>,
        << <<"dkr", <<"b@x.com">>>>, <<"ABJ", <<"a@x.com">>>> >>,
        << <<"DKR", JS("t2")>>, <<"ABJ", JS("t2")>> >> >>,
     << <<"ABJ", "dkr">>,
        << <<"abj", <<"b@x.com">>>> >>,
        << <<"abj", JN(7)>>, <<"dkr", JS("t2")>> >> >>}

ReplInputs ==
    [calls |-> {Call("set_mapping", "ABJ", <<>>, <<"c@x.com">>, "", "", "")},
     replacements |-> Replacements,
     channels |-> {"last_sent", "all"}]

InitRepl == Construct({Found(JsonFile(Dump(ValidConfig)), NoLegacy)}, {"ok"})

NextRepl ==
    \/ on_changed(ReplInputs)
    \/ get_all_kept
    \/ Drop
    \/ \E t \in Threads :
        \/ replace_all_config(t, ReplInputs)
        \/ ra_acquire(t)
        \/ ra_stopovers(t)
        \/ ra_mappings(t)
        \/ ra_last_sent(t)
        \/ ra_save(t)
        \/ Mutate(t, ReplInputs)
        \/ Mkdir(t)
        \/ Copy(t)
        \/ Open(t)
        \/ DumpAll(t)
        \/ Replace(t)
        \/ CleanupTmp(t)
        \/ Release(t)
        \/ Capture(t)
        \/ Deliver(t)
        \/ DeliverAll(t)

SpecRepl == InitRepl /\ [][NextRepl]_vars

\* ------------------------------------------------------------------ two callers of MappingService

\* A thread calls MappingService.add_mapping(stopover_code, email): it reads
\* maps = self._manager.get_mappings() and current = list(maps.get(code, [])).
\* The getter holds the lock for the time of the copy only.
add_mapping_read(t, in) ==
    \E s \in in.codes, e \in in.addresses :
        /\ At(t, "idle")
        /\ LockFree(lock, t)
        /\ th' = [th EXCEPT ![t] =
                    [pc |-> "am_set", call |-> <<"add_mapping", Upper(s), Strip(e)>>,
                     mine |-> Get(get_mappings(config)[1], Upper(s), <<>>),
                     emits |-> <<>>, k |-> 0, snap |-> 0]]
        /\ UNCHANGED <<config, disk, bak, tmp, legacy, obs, last, lock, gen, seen, hist, held,
                       aside>>

\* if email and email not in current: current.append(email);
\* self._manager.set_mapping(code, current); otherwise return False
add_mapping_set(t) ==
    /\ At(t, "am_set")
    /\ LockFree(lock, t)
    /\ LET code == th[t].call[2]
           e == th[t].call[3]
           current == th[t].mine
       IN  IF e # "" /\ e \notin SeqToSet(current)
           THEN LET r == Setter(config, Fs, obs,
                                Call("set_mapping", code, <<>>, Append(current, e), "", "", ""),
                                "ok", NoCallback)
                IN  /\ config' = r.cfg
                    /\ SetFs(r.fs)
                    /\ hist' = [hist EXCEPT !.written = TRUE]
                    /\ Goto(t, "am_enable")
           ELSE /\ Goto(t, "returned_false")
                /\ UNCHANGED <<config, disk, bak, tmp, hist>>
    /\ UNCHANGED <<legacy, obs, last, lock, gen, seen, held, aside>>

\* self._manager.add_stopover(code); return True
add_mapping_enable(t) ==
    /\ At(t, "am_enable")
    /\ LockFree(lock, t)
    /\ LET r == Setter(config, Fs, obs,
                       Call("add_stopover", th[t].call[2], <<>>, <<>>, "", "", ""),
                       "ok", NoCallback)
       IN  /\ config' = r.cfg
           /\ SetFs(r.fs)
    /\ Goto(t, "returned_true")
    /\ UNCHANGED <<legacy, obs, last, lock, gen, seen, hist, held, aside>>

AddInputs == [codes |-> {"ABJ", "abj", "DKR"}, addresses |-> {"x@y.com", "z@y.com", " x@y.com"}]

InitAdd == Construct({FirstRun, Found(JsonFile(Dump(ValidConfig)), NoLegacy)}, {"ok"})

NextAdd ==
    \E t \in Threads :
        \/ add_mapping_read(t, AddInputs)
        \/ add_mapping_set(t)
        \/ add_mapping_enable(t)

SpecAdd == InitAdd /\ [][NextAdd]_vars

\* ------------------------------------------------------------------ callbacks that change their argument

\* A setter up to the end of its lock hold; the notification follows step by step.
\* During a notification th[t].mine is the object the next callback is handed.
arg_setter(t, in) ==
    \E c \in in.calls :
        LET b == Body(config, c)
            sv == IF b.save THEN _save(Fs, b.cfg, "ok") ELSE [fs |-> Fs, raised |-> FALSE]
        IN  /\ At(t, "idle")
            /\ config' = b.cfg
            /\ SetFs(sv.fs)
            /\ hist' = [hist EXCEPT !.written = @ \/ b.save]
            /\ seen' = <<>>
            /\ th' = [th EXCEPT ![t] = [pc |-> "arg_emit", call |-> c, mine |-> <<>>,
                                        emits |-> b.emits, k |-> 1, snap |-> 0]]
            /\ UNCHANGED <<legacy, obs, last, lock, gen, held, aside>>

\* cb(self.get_<domain>()): a new copy for every callback of the channel; and
\* snapshot = self.get_all(), once, when the callbacks of the channel are through
arg_capture(t) ==
    /\ At(t, "arg_emit")
    /\ th' = [th EXCEPT ![t] =
                IF th[t].k <= obs[Head(th[t].emits)]
                THEN [@ EXCEPT !.pc = "arg_call",
                               !.mine = Getter(Head(th[t].emits), config)[1]]
                ELSE IF obs["all"] > 0
                     THEN [@ EXCEPT !.pc = "arg_call_all", !.k = 1,
                                    !.mine = get_all(config)[1]]
                     ELSE IF Len(@.emits) > 1
                          THEN [@ EXCEPT !.emits = Tail(@), !.k = 1]
                          ELSE IdleThread]
    /\ UNCHANGED <<config, disk, bak, tmp, legacy, obs, last, lock, gen, seen, hist, held, aside>>

\* What a callback may do to the object it was handed: nothing, or empty one of
\* its lists or dicts
Touched(name, val) ==
    IF DOMAIN val = {} THEN {val}
    ELSE {val} \cup {ClearAt(val, p) : p \in Containers(name, val)}

\* The k-th callback of the channel runs on its own copy.
arg_call(t) ==
    /\ At(t, "arg_call")
    /\ seen' = Put(seen, Callback(Head(th[t].emits), th[t].k), th[t].mine)
    /\ \E v \in Touched(Head(th[t].emits), th[t].mine) :
        th' = [th EXCEPT ![t].pc = "arg_emit", ![t].k = @ + 1, ![t].mine = v]
    /\ UNCHANGED <<config, disk, bak, tmp, legacy, obs, last, lock, gen, hist, held, aside>>

\* for cb in list(self._obs_all): cb(snapshot): the k-th global callback runs on
\* the one snapshot object of the loop.
arg_call_all(t) ==
    /\ At(t, "arg_call_all")
    /\ seen' = Put(seen, Callback("all", th[t].k), th[t].mine)
    /\ \E v \in Touched("all", th[t].mine) :
        th' = [th EXCEPT ![t] =
                IF th[t].k < obs["all"] THEN [@ EXCEPT !.k = @ + 1, !.mine = v]
                ELSE IF Len(@.emits) > 1
                     THEN [@ EXCEPT !.pc = "arg_emit", !.emits = Tail(@), !.k = 1, !.mine = <<>>]
                     ELSE IdleThread]
    /\ UNCHANGED <<config, disk, bak, tmp, legacy, obs, last, lock, gen, hist, held, aside>>

ArgInputs ==
    [calls |-> {Call("set_mapping", "DKR", <<>>, <<"b@x.com">>, "", "", ""),
                Call("remove_stopover", "ABJ", <<>>, <<>>, "", "", ""),
                Call("set_last_sent", "ABJ", <<>>, <<>>, "t2", "", "")},
     channels |-> {"mappings", "all"}]

InitArg == Construct({Found(JsonFile(Dump(ValidConfig)), NoLegacy)}, {"ok"})

NextArg ==
    \/ on_changed(ArgInputs)
    \/ arg_setter(1, ArgInputs)
    \/ arg_capture(1)
    \/ arg_call(1)
    \/ arg_call_all(1)

SpecArg == InitArg /\ [][NextArg]_vars

\* ------------------------------------------------------------------ callbacks that call the store

\* A call of a getter, written as a call of the store
IsRead(c) == ArgOp(c) = "get_mappings"

\* During a call made from inside a callback, th[t].mine is the stack of the
\* notifications that wait for it, innermost last.
Frame(r, pc) == [pc |-> pc, call |-> r.call, emits |-> r.emits, k |-> r.k]

\* The channels whose callbacks are running on the thread, innermost included
InCallback(r) == {Head(r.emits)} \cup {Head(r.mine[i].emits) : i \in 1..Len(r.mine)}

\* The call returns: to the callback that made it, or to the caller of the thread
Return(r) ==
    IF r.mine = <<>> THEN IdleThread
    ELSE LET f == r.mine[Len(r.mine)]
         IN  [pc |-> f.pc, call |-> f.call, mine |-> SubSeq(r.mine, 1, Len(r.mine) - 1),
              emits |-> f.emits, k |-> f.k, snap |-> 0]

\* One _emit_<domain> is through: the next one of the setter, or the return
NextEmit(r) ==
    IF Len(r.emits) > 1 THEN [r EXCEPT !.pc = "lv_emit", !.emits = Tail(@), !.k = 1]
    ELSE Return(r)

\* A thread calls a getter or a setter of the store.
live_call(t, in) ==
    \E c \in in.calls :
        /\ At(t, "idle")
        /\ gen < MaxGen
        /\ gen' = gen + 1
        /\ th' = [th EXCEPT ![t] = [pc |-> "lv_lock", call |-> c, mine |-> <<>>,
                                    emits |-> <<>>, k |-> 0, snap |-> 0]]
        /\ UNCHANGED <<config, disk, bak, tmp, legacy, obs, last, lock, seen, hist, held, aside>>

\* with self._lock: the copy of a getter, or the mutation of a setter
live_acquire(t) ==
    /\ At(t, "lv_lock")
    /\ LockFree(lock, t)
    /\ lock' = t
    /\ IF IsRead(th[t].call)
       THEN /\ Goto(t, "lv_release")
            /\ UNCHANGED config
       ELSE LET b == Body(config, th[t].call)
            IN  /\ config' = b.cfg
                /\ th' = [th EXCEPT ![t].pc = IF b.save THEN "lv_save" ELSE "lv_release",
                                     ![t].emits = b.emits, ![t].k = 1]
    /\ UNCHANGED <<disk, bak, tmp, legacy, obs, last, gen, seen, hist, held, aside>>

\* self._save(): "with self._lock" again, by the thread that holds it, and the write
live_save(t) ==
    /\ At(t, "lv_save")
    /\ LockFree(lock, t)
    /\ SetFs(_save(Fs, config, "ok").fs)
    /\ hist' = [hist EXCEPT !.written = TRUE]
    /\ Goto(t, "lv_release")
    /\ UNCHANGED <<config, legacy, obs, last, lock, gen, seen, held, aside>>

\* The end of "with self._lock": a getter returns, a setter goes on to notify
live_release(t) ==
    /\ At(t, "lv_release")
    /\ lock' = 0
    /\ th' = [th EXCEPT ![t] = IF IsRead(@.call) THEN Return(@)
                                ELSE [@ EXCEPT !.pc = "lv_emit"]]
    /\ UNCHANGED <<config, disk, bak, tmp, legacy, obs, last, gen, seen, hist, held, aside>>

\* The argument of the next callback: self.get_<domain>() for the k-th callback of
\* the channel, snapshot = self.get_all() when these are through; both take the lock
live_emit(t) ==
    /\ At(t, "lv_emit")
    /\ LockFree(lock, t)
    /\ th' = [th EXCEPT ![t] =
                IF @.k <= obs[Head(@.emits)] THEN [@ EXCEPT !.pc = "lv_cb"]
                ELSE IF obs["all"] > 0 THEN [@ EXCEPT !.pc = "lv_cb_all", !.k = 1]
                ELSE NextEmit(@)]
    /\ UNCHANGED <<config, disk, bak, tmp, legacy, obs, last, lock, gen, seen, hist, held, aside>>

\* A callback of a domain channel runs: it returns, or it first calls a getter or
\* a setter that notifies none of the channels whose callbacks are running.
live_callback(t, in) ==
    /\ th[t].pc \in {"lv_cb", "lv_back"}
    /\ \/ th' = [th EXCEPT ![t].pc = "lv_emit", ![t].k = @ + 1]
       \/ /\ At(t, "lv_cb")
          /\ \E c \in in.calls :
                /\ IsRead(c) \/ SeqToSet(Body(config, c).emits) \cap InCallback(th[t]) = {}
                /\ th' = [th EXCEPT ![t] =
                            [pc |-> "lv_lock", call |-> c,
                             mine |-> Append(@.mine, Frame(@, "lv_back")),
                             emits |-> <<>>, k |-> 0, snap |-> 0]]
    /\ UNCHANGED <<config, disk, bak, tmp, legacy, obs, last, lock, gen, seen, hist, held, aside>>

\* A global callback runs: it returns, or it first calls a getter.
live_callback_all(t, in) ==
    /\ th[t].pc \in {"lv_cb_all", "lv_back_all"}
    /\ \/ th' = [th EXCEPT ![t] = IF @.k < obs["all"]
                                   THEN [@ EXCEPT !.pc = "lv_cb_all", !.k = @ + 1]
                                   ELSE NextEmit(@)]
       \/ /\ At(t, "lv_cb_all")
          /\ \E c \in {x \in in.calls : IsRead(x)} :
                th' = [th EXCEPT ![t] =
                        [pc |-> "lv_lock", call |-> c,
                         mine |-> Append(@.mine, Frame(@, "lv_back_all")),
                         emits |-> <<>>, k |-> 0, snap |-> 0]]
    /\ UNCHANGED <<config, disk, bak, tmp, legacy, obs, last, lock, gen, seen, hist, held, aside>>

LiveInputs ==
    [calls |-> {Call("get_mappings", "", <<>>, <<>>, "", "", ""),
                Call("set_mapping", "ABJ", <<>>, <<"a@x.com">>, "", "", ""),
                Call("set_last_sent", "ABJ", <<>>, <<>>, "t2", "", "")},
     channels |-> {"mappings", "all"}]

InitLive == Construct({Found(JsonFile(Dump(ValidConfig)), NoLegacy)}, {"ok"})

\* The steps of a call that has started
Proceed(t) ==
    \/ live_acquire(t)
    \/ live_save(t)
    \/ live_release(t)
    \/ live_emit(t)
    \/ live_callback(t, LiveInputs)
    \/ live_callback_all(t, LiveInputs)

NextLive ==
    \/ on_changed(LiveInputs)
    \/ \E t \in Threads :
        \/ live_call(t, LiveInputs)
        \/ live_acquire(t)
        \/ live_save(t)
        \/ live_release(t)
        \/ live_emit(t)
        \/ live_callback(t, LiveInputs)
        \/ live_callback_all(t, LiveInputs)

\* A thread that is inside a call and can take a step eventually takes one: the
\* interpreter keeps scheduling every runnable thread, and a callback returns.
SpecLive == InitLive /\ [][NextLive]_vars /\ \A t \in Threads : WF_vars(Proceed(t))

\* ------------------------------------------------------------------ claims (Spec)

Keys(cfg) == DOMAIN cfg.mappings \cup DOMAIN cfg.last_sent

\* The configuration held in a file written by the store
Stored(f) == _sanitize_loaded_config(f[2][2])

\* C1: in every state after construction and after any sequence of setter calls,
\* every key of mappings and every key of last_sent is an element of stopovers.
C1_KeysAreStopovers == Keys(config) \subseteq SeqToSet(config.stopovers)

\* C9 as stated: after set_stopovers(S) returns, every code that is not an element
\* of S is absent from mappings and from last_sent, and stopovers holds the codes of
\* S normalized to uppercase.
C9_NotInSAbsent ==
    ArgOp(last.call) = "set_stopovers" =>
        /\ config.stopovers = UpperAll(ArgCodes(last.call))
        /\ \A c \in Keys(config) \cup Codes :
              c \notin SeqToSet(ArgCodes(last.call)) => c \notin Keys(config)

\* C9 amended: after set_stopovers(S) returns, stopovers holds the codes of S
\* normalized to uppercase, and every code whose uppercase form is not among them is
\* absent from mappings and from last_sent.
C9_SetStopoversPrunes ==
    ArgOp(last.call) = "set_stopovers" =>
        /\ config.stopovers = UpperAll(ArgCodes(last.call))
        /\ \A c \in Keys(config) \cup Codes :
              Upper(c) \notin SeqToSet(UpperAll(ArgCodes(last.call))) => c \notin Keys(config)

\* C9 witness: set_stopovers(["abj"]) has returned; it kept the entry of ABJ and
\* pruned an entry (of DKR) that the previous file, now the backup, still holds.
C9_Witness ==
    /\ ArgOp(last.call) = "set_stopovers"
    /\ ArgCodes(last.call) = <<"abj">>
    /\ "ABJ" \in DOMAIN config.mappings
    /\ bak[1] = "json"
    /\ "DKR" \in Keys(Stored(bak))
    /\ "DKR" \notin Keys(config)

\* C10: after remove_stopover(c) returns, for any case of c, the code is absent
\* from stopovers, from mappings and from last_sent.
C10_RemovedEverywhere ==
    ArgOp(last.call) = "remove_stopover" =>
        \A c \in {ArgCode(last.call), Upper(ArgCode(last.call))} :
            c \notin SeqToSet(config.stopovers) \cup Keys(config)

\* ------------------------------------------------------------------ claims (SpecObs)

\* The write of a call failed: os.makedirs, open/json.dump or os.replace raised
WriteFailures == {"mkdir", "dump", "replace"}

\* A step that is one whole setter call
SetterStep == last = NoLast /\ last' # NoLast

\* C3 as stated: whenever no setter call is in progress, also right after
\* construction from an existing unified file, the on-disk file holds the in-memory
\* configuration, provided disk writes succeed.
C3_DiskEqualsMemory == hist.faults = 0 => disk = JsonFile(Dump(config))

\* C3 amended: provided disk writes succeed, once this process has saved (a
\* migration at construction or a setter that mutates) the on-disk file holds
\* exactly the in-memory configuration whenever no setter is in progress; before
\* that, the in-memory configuration is the sanitized form of the file it loaded.
C3_DiskEqualsMemoryOnceSaved ==
    hist.faults = 0 =>
        IF hist.written THEN disk = JsonFile(Dump(config))
        ELSE disk[1] = "json" /\ config = Stored(disk)

\* C3 witness: set_mapping has returned from the first save after loading a file
\* of an older release; the backup still holds the deprecated key, the file does not.
C3_Witness ==
    /\ ArgOp(last.call) = "set_mapping"
    /\ hist.faults = 0
    /\ hist.written
    /\ bak[1] = "json"
    /\ "check_vars" \in DOMAIN bak[2][2]
    /\ disk = JsonFile(Dump(config))

\* C5: when the disk write of a setter fails, the setter returns without raising,
\* memory holds the mutation and keeps it until the next setter call, and every
\* notification of the setter reaches all callbacks of its channel and of the
\* global channel.
C5_FailedWriteSwallowed ==
    [][/\ (SetterStep /\ last'.io \in WriteFailures) =>
            LET b == Body(config, last'.call)
            IN  /\ ~last'.raised
                /\ config' = b.cfg
                /\ Len(last'.log) = Len(b.emits)
                /\ \A i \in 1..Len(b.emits) :
                      /\ last'.log[i].domain = b.emits[i]
                      /\ Len(last'.log[i].calls) = obs[b.emits[i]] + obs["all"]
       /\ ~SetterStep => config' = config]_vars

\* C5 witness: os.replace failed in a call that changed memory; the call returned
\* normally, the file holds an older configuration, two callbacks were invoked.
C5_Witness ==
    /\ last.io = "replace"
    /\ ~last.raised
    /\ disk[1] = "json"
    /\ Stored(disk) # config
    /\ Len(last.log) > 0
    /\ Len(last.log[1].calls) >= 2

\* C7: in every notification of a setter, the callbacks of the changed domain are
\* invoked in registration order, all of them before any global callback, and then
\* every global callback is invoked, in registration order.
C7_DomainThenGlobal ==
    \A i \in 1..Len(last.log) :
        LET n == last.log[i]
            d == obs[n.domain]
            g == obs["all"]
        IN  /\ n.domain \in Domains
            /\ Len(n.calls) = d + g
            /\ \A j \in 1..d : n.calls[j].ch = n.domain /\ n.calls[j].k = j
            /\ \A j \in 1..g : n.calls[d + j].ch = "all" /\ n.calls[d + j].k = j

\* C7 witness: set_mapping has notified the callback of mappings and then the global
\* callback, and for stopovers, which has no callback, the global callback again.
C7_Witness ==
    /\ ArgOp(last.call) = "set_mapping"
    /\ obs["mappings"] = 1
    /\ obs["all"] = 1
    /\ Len(last.log) = 2
    /\ Len(last.log[1].calls) = 2
    /\ Len(last.log[2].calls) = 1

\* The callbacks a setter invoked, in order, whatever they did
Invoked(log) ==
    [i \in 1..Len(log) |->
        [j \in 1..Len(log[i].calls) |-> <<log[i].calls[j].ch, log[i].calls[j].k>>]]

SomeRaised(log) ==
    \E i \in 1..Len(log) : \E j \in 1..Len(log[i].calls) : log[i].calls[j].raised

\* C8: when a callback raises during a setter call, the call invokes the same
\* callbacks, returns normally and leaves the same memory and the same files as the
\* same call in which no callback raises.
C8_RaisingCallbackHarmless ==
    [][(SetterStep /\ SomeRaised(last'.log)) =>
            LET r == Setter(config, Files(disk, bak, tmp), obs, last'.call, last'.io,
                            NoCallback)
            IN  /\ ~last'.raised
                /\ Invoked(last'.log) = Invoked(r.log)
                /\ config' = r.cfg
                /\ Files(disk', bak', tmp') = r.fs]_vars

\* C8 witness: the first of two callbacks of mappings raised in a call that saved;
\* the second one was invoked after it.
C8_Witness ==
    /\ last.saved
    /\ Len(last.log) > 0
    /\ Len(last.log[1].calls) = 2
    /\ last.log[1].calls[1].raised
    /\ last.log[1].calls[1].ch = "mappings"
    /\ last.log[1].calls[2].ch = "mappings"
    /\ disk = JsonFile(Dump(config))

\* ------------------------------------------------------------------ claims (SpecConc)

\* The positions of a setter between its mutation and the end of its lock hold
Critical == {"mkdir", "copy", "open", "dump", "replace", "cleanup", "release"}

SameProcess == hist'.boots = hist.boots

\* C2: while a setter is between its mutation and the end of its write, it holds
\* the lock, memory is what its mutation produced, every change of memory or of the
\* files is a step of that setter, and what it puts on disk is exactly the
\* configuration its mutation produced.
C2_OneCriticalSection ==
    [][\A t \in Threads :
          (th[t].pc \in Critical /\ SameProcess) =>
              /\ lock = t
              /\ config = th[t].mine
              /\ \A u \in Threads \ {t} : th[u].pc \notin Critical
              /\ (config' # config \/ disk' # disk \/ tmp' # tmp \/ bak' # bak)
                    => th'[t] # th[t]
              /\ disk' # disk => disk' = JsonFile(Dump(th[t].mine))]_vars

\* C2 witness: thread 1 has written its configuration and still holds the lock
\* while thread 2, inside another setter, is about to call a callback.
C2_Witness ==
    /\ th[1].pc = "release"
    /\ ArgOp(th[1].call) = "remove_stopover"
    /\ disk = JsonFile(Dump(th[1].mine))
    /\ bak # disk
    /\ th[2].pc = "call"
    /\ ArgOp(th[2].call) = "set_mapping"

\* C4: whatever step of the write is interrupted, by an exception or by the death
\* of the process, the file at the canonical path is never partial: it changes only
\* in the rename, to the complete new configuration, and the next process loads the
\* canonical file alone, whatever the .tmp and the .bak hold.
C4_CanonicalWholeOrOld ==
    [][/\ disk'[1] # "partial"
       /\ (SameProcess /\ disk' # disk) =>
            \E t \in Threads : At(t, "replace") /\ disk' = JsonFile(Dump(config))
       /\ ~SameProcess =>
            IF UnifiedLoads(disk) THEN disk' = disk /\ config' = Stored(disk)
            ELSE disk' = JsonFile(Dump(config'))]_vars

\* C4 witness: the process died while json.dump was writing; the next process runs
\* on the previous configuration, with the truncated .tmp still there.
C4_Witness ==
    /\ hist.boots = 2
    /\ tmp = Partial
    /\ bak = disk
    /\ config = Stored(disk)
    /\ "ABJ" \in DOMAIN config.mappings

\* C6: the snapshots delivered to one callback advance: a callback is never handed
\* a snapshot of an older state of the store than one delivered to it before.
C6_SnapshotsAdvance ==
    [][\A cb \in DOMAIN seen \cap DOMAIN seen' : seen'[cb] >= seen[cb]]_vars

\* ------------------------------------------------------------------ claims (Spec), continued

\* C13: remove_mapping(code) deletes only the mappings entry of code: stopovers,
\* last_sent, templates, version and every other mappings entry are unchanged by
\* the call.
C13_RemoveMappingFrame ==
    [][(SetterStep /\ ArgOp(last'.call) = "remove_mapping") =>
            /\ config'.version = config.version
            /\ config'.stopovers = config.stopovers
            /\ config'.templates = config.templates
            /\ config'.last_sent = config.last_sent
            /\ DOMAIN config'.mappings = DOMAIN config.mappings \ {ArgCode(last'.call)}
            /\ \A k \in DOMAIN config'.mappings :
                  config'.mappings[k] = config.mappings[k]]_vars

\* C13 witness: remove_mapping("ABJ") has returned; the previous file holds the
\* entry, memory does not, and ABJ is still a stopover with its last_sent entry and
\* the mapping of another code beside it.
C13_Witness ==
    /\ ArgOp(last.call) = "remove_mapping"
    /\ ArgCode(last.call) = "ABJ"
    /\ bak[1] = "json"
    /\ "ABJ" \in DOMAIN Stored(bak).mappings
    /\ DOMAIN config.mappings = {"DKR"}
    /\ "ABJ" \in SeqToSet(config.stopovers)
    /\ "ABJ" \in DOMAIN config.last_sent

\* C17: in every reachable state (after the load of any JSON object, after a
\* migration and after any sequence of setters) the in-memory configuration has
\* exactly the keys version, stopovers, mappings, templates and last_sent; stopovers
\* is a list of strings, mappings maps strings to lists of strings, templates has
\* exactly the two string fields subject and body, last_sent maps strings to
\* strings; deprecated or unknown keys of the loaded file are dropped.
C17_Schema ==
    /\ DOMAIN config = {"version", "stopovers", "mappings", "templates", "last_sent"}
    /\ config.version \in Int
    /\ \A i \in DOMAIN config.stopovers : config.stopovers[i] \in STRING
    /\ \A k \in DOMAIN config.mappings :
          /\ k \in STRING
          /\ \A i \in DOMAIN config.mappings[k] : config.mappings[k][i] \in STRING
    /\ DOMAIN config.templates = {"subject", "body"}
    /\ config.templates.subject \in STRING
    /\ config.templates.body \in STRING
    /\ \A k \in DOMAIN config.last_sent :
          k \in STRING /\ config.last_sent[k] \in STRING

\* C17 witness: a setter has returned in a store loaded from the file of an older
\* release, which held a deprecated key, a number and a null among the stopovers.
C17_Witness ==
    /\ ArgOp(last.call) = "set_last_sent"
    /\ bak[1] = "json"
    /\ "check_vars" \in DOMAIN bak[2][2]
    /\ bak[2][2]["stopovers"] = JL(<<JS("ABJ"), JN(7), JNull>>)
    /\ config.stopovers = <<"ABJ", "7">>
    /\ disk = JsonFile(Dump(config))

\* ------------------------------------------------------------------ claims (SpecGet)

\* C16: the values returned by get_all, get_mappings, get_stopovers, get_templates
\* and get_last_sent are copies: each equals the store's content when it is
\* returned, and no mutation a caller applies to a returned value, at any nesting
\* depth, changes the in-memory configuration or what a later getter returns.
C16_GettersReturnCopies ==
    [][/\ (held[1] = "" /\ held'[1] # "") =>
            held'[2] = IF held'[1] = "all" THEN config ELSE config[held'[1]]
       /\ (held[1] # "" /\ held'[4] /\ ~held[4]) =>
            /\ config' = config
            /\ \A name \in Getters : Getter(name, config')[1] = Getter(name, config)[1]]_vars

\* C16 witness: the caller has emptied the recipient list of ABJ inside the dict
\* that get_mappings returned; the store still holds the list.
C16_Witness ==
    /\ held[1] = "mappings"
    /\ held[4]
    /\ "ABJ" \in DOMAIN held[2]
    /\ held[2]["ABJ"] = <<>>
    /\ "ABJ" \in DOMAIN config.mappings
    /\ config.mappings["ABJ"] = <<"a@x.com">>
    /\ get_mappings(config)[1]["ABJ"] = <<"a@x.com">>

\* ------------------------------------------------------------------ claims (SpecMig)

\* A step in which a process constructs its store
Booting == hist'.boots # hist.boots

C19_LegacyKeptUnlessWritten ==
    [][(Booting /\ legacy' # legacy) => disk' = JsonFile(Dump(config'))]_vars

\* C20: during migration, when several candidate files of the ordered candidate
\* list supply the same field (the recipient list of a code, the stopovers list, a
\* last_sent entry, the subject or the body), the value of the first candidate that
\* supplies it is the one migrated.
C20_FirstCandidateWins ==
    [][(Booting /\ ~UnifiedLoads(disk)) =>
        LET maps(p) == _read_legacy_mappings(<<p>>, legacy)
            sent(p) == _read_legacy_last_sent(<<p>>, legacy)
            tpl(p) == LegacyTemplatesFrom(<<p>>, legacy)
            M == MappingCandidates
            C == ConfigCandidates
            T == TemplateCandidates
        IN  /\ \A i \in 1..Len(M) : \A k \in DOMAIN maps(M[i]).mappings :
                  (\A j \in 1..(i - 1) : k \notin DOMAIN maps(M[j]).mappings) =>
                      /\ k \in DOMAIN config'.mappings
                      /\ config'.mappings[k] = maps(M[i]).mappings[k]
            /\ \A i \in 1..Len(M) :
                  (/\ maps(M[i]).stopovers # <<>>
                   /\ \A j \in 1..(i - 1) : maps(M[j]).stopovers = <<>>) =>
                      config'.stopovers = maps(M[i]).stopovers
            /\ \A i \in 1..Len(C) : \A k \in DOMAIN sent(C[i]) :
                  (\A j \in 1..(i - 1) : k \notin DOMAIN sent(C[j])) =>
                      /\ k \in DOMAIN config'.last_sent
                      /\ config'.last_sent[k] = sent(C[i])[k]
            /\ \A i \in 1..Len(T) :
                  /\ (/\ tpl(T[i]).subject.has
                      /\ \A j \in 1..(i - 1) : ~tpl(T[j]).subject.has) =>
                          config'.templates.subject = tpl(T[i]).subject.s
                  /\ (/\ tpl(T[i]).body.has
                      /\ \A j \in 1..(i - 1) : ~tpl(T[j]).body.has) =>
                          config'.templates.body = tpl(T[i]).body.s]_vars

\* A file that json.load turns into a value
Parses(f) == f[1] = "json"

\* No legacy fragment is found, or none parses
NoFragmentParses == \A p \in LegacyPaths : legacy[p][1] \notin {"json", "text"}

\* C21: constructing the store never fails because of file content: over a unified
\* file that exists and cannot be parsed, or is not a JSON object, the store is the
\* one the legacy migration builds (and the fragments are consumed), and when no
\* legacy fragment is found or none parses it is the default configuration
\* (version 1, no stopovers, no mappings, no last_sent, empty subject and body).
C21_ConstructionFallsBack ==
    [][Booting /\ disk # Absent /\ (~Parses(disk) \/ disk[2][1] # "dict") =>
        /\ \E order \in KeyOrders(_read_legacy_mappings(MappingCandidates, legacy).mappings) :
                config' = Migrated(legacy, order)
        /\ legacy' = Removed(legacy)
        /\ DOMAIN config' = {"version", "stopovers", "mappings", "templates", "last_sent"}
        /\ NoFragmentParses =>
                config' = [version |-> 1, stopovers |-> <<>>, mappings |-> <<>>,
                           templates |-> [subject |-> "", body |-> ""],
                           last_sent |-> <<>>]]_vars

\* A process has started over a unified file that does not parse, has found no
\* legacy fragment that parses, holds the default configuration and has written it
\* (the file that did not parse is the backup).
C21_Witness ==
    /\ hist.boots = 1
    /\ bak = Garbage
    /\ config = _default_config
    /\ disk = JsonFile(Dump(config))

\* C22: persistence round trip: a process that starts over the file that the
\* process before it saved from its (valid) in-memory configuration, every write of
\* which succeeded, holds an equal configuration: sanitization on load is the
\* identity on what a save of a valid configuration wrote.
C22_SaveLoadRoundTrip ==
    [][Booting /\ hist.written /\ hist.faults = 0 =>
        /\ disk = JsonFile(Dump(config))
        /\ config' = config]_vars

\* The second process holds, without having written anything, the recipients that
\* the first one stored with set_mapping next to what it had migrated.
C22_Witness ==
    /\ hist.boots = 2
    /\ ~hist.written
    /\ hist.faults = 0
    /\ "ABJ" \in DOMAIN config.mappings
    /\ config.mappings["ABJ"] = <<"z@x.com">>
    /\ config.templates.body = "b"

\* ------------------------------------------------------------------ claims (SpecCase)

\* C11: from any state, calling add_stopover(c) twice leaves the same configuration
\* as calling it once, and calling remove_stopover(c) twice leaves the same
\* configuration as calling it once.
C11_AddRemoveIdempotent ==
    \A s \in CaseInputs.codes :
        LET add == Call("add_stopover", s, <<>>, <<>>, "", "", "")
            rem == Call("remove_stopover", s, <<>>, <<>>, "", "", "")
            added == add_stopover_body(config, add).cfg
            removed == remove_stopover_body(config, rem).cfg
        IN  /\ add_stopover_body(added, add).cfg = added
            /\ remove_stopover_body(removed, rem).cfg = removed

\* C12: after set_mapping(code, recipients) returns, get_mappings()[upper(code)] is
\* the recipient list exactly as given (same elements, same order, tagged entries
\* untouched) and upper(code) is an element of stopovers, whether or not it was
\* there before.
C12_SetMappingVerbatim ==
    ArgOp(last.call) = "set_mapping" =>
        LET code == Upper(ArgCode(last.call))
        IN  /\ code \in DOMAIN get_mappings(config)[1]
            /\ get_mappings(config)[1][code] = ArgEmails(last.call)
            /\ code \in SeqToSet(get_stopovers(config)[1])

\* C12 witness: set_mapping("abj", [to, tagged cc]) has returned; it replaced the
\* list the previous file holds for ABJ, and ABJ is in stopovers.
C12_Witness ==
    /\ ArgOp(last.call) = "set_mapping"
    /\ ArgCode(last.call) = "abj"
    /\ ArgEmails(last.call) = <<"x@y.com", "__CC__:cc@y.com">>
    /\ bak[1] = "json"
    /\ "ABJ" \in DOMAIN Stored(bak).mappings
    /\ Stored(bak).mappings["ABJ"] = <<"x@y.com">>
    /\ config.mappings["ABJ"] = <<"x@y.com", "__CC__:cc@y.com">>
    /\ is_stopover_enabled(config, "abj")

\* C14: starting from an empty configuration, after any sequence of setter calls
\* with arguments of any case, every element of stopovers and every key of mappings
\* and last_sent equals its uppercase form, and a removal by a lowercase variant of
\* a stored code acts on that stored code.
C14_CodesUppercase ==
    /\ \A c \in SeqToSet(config.stopovers) \cup Keys(config) : c = Upper(c)
    /\ ArgOp(last.call) = "clear_last_sent" =>
            Upper(ArgCode(last.call)) \notin DOMAIN config.last_sent
    /\ ArgOp(last.call) = "remove_mapping" =>
            Upper(ArgCode(last.call)) \notin DOMAIN config.mappings

\* C15: in every reachable state no mappings[code] list holds the same string
\* twice; in particular MappingService.add_mapping(code, email) for an email that is
\* already in the list returns False and leaves the configuration unchanged.
C15_NoDuplicateRecipients ==
    /\ \A c \in DOMAIN config.mappings :
          \A i, j \in 1..Len(config.mappings[c]) :
              config.mappings[c][i] = config.mappings[c][j] => i = j
    /\ \A s \in CaseInputs.codes :
          \A e \in SeqToSet(Get(config.mappings, Upper(s), <<>>)) :
              LET m == MappingService_add_mapping(config, s, e)
              IN  ~m.ret /\ m.calls = <<>>

\* ------------------------------------------------------------------ claims (SpecCodec)

\* The addresses of the three lists handed to the codec
Given == UNION {SeqToSet(rcpt[2][i]) : i \in 1..3}

Tagged(a) == StartsWith(a, _CC_TAG) \/ StartsWith(a, _BCC_TAG)

\* Neither empty nor blank, and without a blank before or after it
Trimmed(a) == a # "" /\ Strip(a) = a

\* C23 as stated: for all lists to, cc, bcc of addresses that do not begin with a
\* reserved tag, decoding the encoded list gives back (to, cc, bcc).
C23_CodecRoundTrip ==
    rcpt[1] = "decoded" /\ (\A a \in Given : ~Tagged(a)) => rcpt[4] = rcpt[2]

\* C23, amended: for all lists to, cc, bcc of addresses that are not blank, carry no
\* blank before or after them and do not begin with a reserved tag, decoding the
\* encoded list gives back (to, cc, bcc), each bucket in its order.
C23_CodecRoundTripTrimmed ==
    rcpt[1] = "decoded" /\ (\A a \in Given : ~Tagged(a) /\ Trimmed(a)) => rcpt[4] = rcpt[2]

\* Two To addresses, two Cc addresses and two Bcc addresses have gone through the
\* codec and come back as they were given.
C23_Witness ==
    /\ rcpt[1] = "decoded"
    /\ rcpt[2] = <<<<"z@y.com", "x@y.com">>, <<"d@y.com", "c@y.com">>,
                   <<"e@y.com", "b@y.com">>>>
    /\ rcpt[4] = rcpt[2]
    /\ Len(rcpt[3]) = 6

\* Empty or whitespace-only
Blank(a) == Strip(a) = ""
NotBlank(a) == ~Blank(a)

Done == scan[1] = "done"
Completed == Done /\ \E k \in 1..Len(scan[4]) : scan[4][k][1] = "on_analysis_complete"

\* The text `word` occurs in s, letter for letter
Occurs(word, s) ==
    \E i \in 1..Len(s) : i + Len(word) - 1 <= Len(s) /\ SubSeq(s, i, i + Len(word) - 1) = word

\* The pages of the document analysed, and the readable ones
NumPages == IF scan[2][1] = "pdf" THEN Len(PagesOf(scan[2])) ELSE 0
Readable(i) == PagesOf(scan[2])[i] # Unreadable
PageText(i) == PagesOf(scan[2])[i][2]

\* The Stopovers reported for page i
ReportedFor(i) == {scan[3][k][1] : k \in {j \in 1..Len(scan[3]) : scan[3][j][2] = i}}

\* C25: classifier precedence: the bracketed form is tried first, so a page whose
\* text contains "[ABJ]-Bilan" and, elsewhere, the spaced-hyphen form for another
\* code ("DKR - Bilan") is given the code ABJ, wherever the two stand in the text.
C25_BracketedFormFirst ==
    Completed =>
        \A i \in 1..NumPages :
            /\ Occurs("[ABJ]-Bilan", PageText(i))
            /\ Occurs("DKR - Bilan", PageText(i))
            /\ Occurs("bjectifs", PageText(i))
            => ReportedFor(i) = {"ABJ"}

\* Some pattern matches somewhere in the text
CodeFound(t) ==
    \E pattern \in {"spaced", "bracketed", "plain"}, i \in 1..Len(t) : GroupAt(pattern, t, i) # 0

\* The keyword occurs in the text, in any case
KeywordFound(t) == Occurs("OBJECTIFS", StrUpper(t))

\* C26: classifier conjunction: a page is reported as a stopover page if and only
\* if a code is extracted from its text and the keyword "objectifs" occurs in it in
\* any case (is_stopover_page says the same); the code reported is exactly three
\* upper-case letters; a page with only one of the two is never reported.
C26_CodeAndKeyword ==
    Completed =>
        \A i \in 1..NumPages :
            /\ ReportedFor(i) # {} <=> CodeFound(PageText(i)) /\ KeywordFound(PageText(i))
            /\ ReportedFor(i) # {} <=> is_stopover_page(PageText(i))
            /\ \A code \in ReportedFor(i) :
                    /\ Len(code) = 3
                    /\ \A k \in 1..3 : \E j \in 1..26 : Char(code, k) = Char(UpperCase, j)

\* A document with a page that has a code and no keyword and a page that has both,
\* in lower case, has been analysed: only the second page is reported, as ABJ.
C26_Witness ==
    /\ Completed
    /\ scan[2] = Pdf(<<Text("DKR-Bilan"), Text("abj-bilan OBJECTIFS")>>)
    /\ scan[3] = <<Stopover("ABJ", 2)>>

\* C27: when the text of one page of a document that opens cannot be extracted,
\* that page is skipped and the scan goes on: the analysis completes and its list
\* holds the stopover of every other page that is a stopover page.
C27_UnreadablePageSkipped ==
    Done /\ scan[2][1] = "pdf" =>
        /\ Completed
        /\ \A i \in 1..NumPages :
                Readable(i) /\ is_stopover_page(PageText(i)) => ReportedFor(i) # {}

\* The callbacks invoked during the analysis, by name
Invocations == [k \in 1..Len(scan[4]) |-> scan[4][k][1]]

\* C28: when the document cannot be opened at all, the analysis gives no list,
\* partial or empty: the error reaches the controller's thread, which reports it
\* with on_status_update, does not call on_analysis_complete, keeps its (empty)
\* list of stopovers and ends with on_progress_stop.
C28_UnopenableAborts ==
    Done /\ scan[2] = Unopenable =>
        /\ ~Completed
        /\ scan[3] = <<>>
        /\ Invocations = <<"on_progress_start", "on_status_update", "on_progress_stop">>
        /\ scan[4][2][2] = "error"

\* The analysis of a document that does not open has ended with the error reported.
C28_Witness ==
    /\ Done
    /\ scan[2] = Unopenable
    /\ <<"on_status_update", "error">> \in SeqToSet(scan[4])

\* The codes reported for a document that has the text t on its only page
ReportedAlone(t) ==
    LET r == PDFProcessor_analyze_pdf(Pdf(<<Text(t)>>))
    IN  {r[2][k][1] : k \in 1..Len(r[2])}

\* C29: the list an analysis returns is in document order with 1-based page
\* numbers: the page numbers increase strictly along the list, each lies in
\* 1..page count, a page has at most one Stopover, and whether page i is reported,
\* and with which code, is what its text alone decides: the same as for a document
\* that has this text on its only page.
C29_DocumentOrder ==
    Completed =>
        /\ \A k \in 1..Len(scan[3]) : scan[3][k][2] \in 1..NumPages
        /\ \A k \in 1..Len(scan[3]) - 1 : scan[3][k][2] < scan[3][k + 1][2]
        /\ \A i \in 1..NumPages :
                /\ Cardinality({k \in 1..Len(scan[3]) : scan[3][k][2] = i}) <= 1
                /\ ReportedFor(i) = ReportedAlone(PageText(i))
        /\ <<"on_analysis_complete", scan[3]>> \in SeqToSet(scan[4])

\* A document with two stopover pages has been analysed: ABJ on page 1, then DKR
\* on page 2.
C29_Witness ==
    /\ Completed
    /\ NumPages = 2
    /\ scan[3] = <<Stopover("ABJ", 1), Stopover("DKR", 2)>>

\* ------------------------------------------------------------------ claims (SpecInst)

\* C30: one store instance per process: under any interleaving of concurrent calls
\* of ConfigManager.instance() / get_config_manager(), exactly one ConfigManager is
\* ever constructed (load-or-migrate runs once) and every caller receives that same
\* instance.
C30_OneInstance ==
    /\ inst[2] <= 1
    /\ Cardinality(inst[3]) <= 1
    /\ inst[3] # {} => inst[2] = 1

\* ------------------------------------------------------------------ claims (SpecGet), frames

\* C31: set_last_sent(code, ts) with a non-empty ts sets last_sent[upper(code)] to
\* ts, and with no timestamp sets it to a fresh UTC timestamp; stopovers,
\* mappings, templates, version and every other last_sent entry stay as they were.
C31_SetLastSentFrame ==
    [][(SetterStep /\ ArgOp(last'.call) = "set_last_sent") =>
        LET key == StrUpper(ArgCode(last'.call))
            ts == ArgTs(last'.call)
        IN  /\ DOMAIN config'.last_sent = DOMAIN config.last_sent \cup {key}
            /\ config'.last_sent[key] = IF ts # "" THEN ts ELSE UtcNow
            /\ \A k \in DOMAIN config.last_sent \ {key} :
                    config'.last_sent[k] = config.last_sent[k]
            /\ config'.stopovers = config.stopovers
            /\ config'.mappings = config.mappings
            /\ config'.templates = config.templates
            /\ config'.version = config.version]_vars

\* set_last_sent('abj') without a timestamp has returned on a store in which DKR
\* was stamped earlier and ABJ is no stopover: ABJ is stamped now, DKR keeps its
\* stamp, and ABJ is still no stopover.
C31_Witness ==
    /\ last # NoLast
    /\ ArgOp(last.call) = "set_last_sent"
    /\ ArgCode(last.call) = "abj"
    /\ ArgTs(last.call) = ""
    /\ DOMAIN config.last_sent = {"ABJ", "DKR"}
    /\ config.last_sent["ABJ"] = UtcNow
    /\ config.last_sent["DKR"] = "t2"
    /\ "ABJ" \notin SeqToSet(config.stopovers)

\* ------------------------------------------------------------------ claims (SpecObs), the write

Notifying == {"emit", "call", "call_all"}

\* C33: every setter goes lock, mutate, write, release, notify.  A thread reaches
\* the end of the lock hold with its own mutation in memory and its write over
\* (when no file operation failed: no .tmp file, and the unified file holding its
\* configuration); it starts to notify only from there; and while it
\* notifies, and so whenever one of its callbacks is invoked, it does not hold
\* the lock.
C33_SetterOrder ==
    [][\A t \in Threads :
        /\ th[t].pc = "release" =>
                /\ lock = t
                /\ config = th[t].mine
                /\ hist.faults = 0 => (tmp = Absent /\ disk = JsonFile(Dump(th[t].mine)))
        /\ (th'[t].pc \in Notifying /\ th[t].pc \notin Notifying) => th[t].pc = "release"
        /\ th[t].pc \in Notifying => lock # t]_vars

\* A callback of thread 1's set_mapping is being invoked with the unified file
\* holding that mutation, while thread 2 holds the lock and is writing its own.
C33_Witness ==
    /\ th[1].pc = "call"
    /\ ArgOp(th[1].call) = "set_mapping"
    /\ lock = 2
    /\ th[2].pc = "dump"
    /\ disk = JsonFile(Dump(th[1].mine))
    /\ config # th[1].mine

\* ------------------------------------------------------------------ claims (SpecCase), enablement

\* C34: after save_config(cfg) has returned, get_config(cfg.stopover_code).is_enabled
\* (which is is_stopover_enabled of the upper-cased code) equals cfg.is_enabled; so
\* after a save with is_enabled = False the code is not in stopovers.
C34_SaveConfigPersistsEnablement ==
    (last # NoLast /\ last.call[1] = "save_config") =>
        is_stopover_enabled(config, last.call[2]) = last.call[3]

\* ------------------------------------------------------------------ claims (SpecRepl)

InReplace == {"ra_stopovers", "ra_mappings", "ra_last_sent", "ra_save"}
Replacing(t) == th[t].call[1] = "replace_all_config"

\* Every key of mappings and of last_sent is a stopover, and every stopover is in
\* upper case.
Whole(cfg) ==
    /\ \A i \in 1..Len(cfg.stopovers) : cfg.stopovers[i] = StrUpper(cfg.stopovers[i])
    /\ DOMAIN cfg.mappings \subseteq SeqToSet(cfg.stopovers)
    /\ DOMAIN cfg.last_sent \subseteq SeqToSet(cfg.stopovers)

\* C35: replace_all_config assigns the three domains in one lock hold with one
\* write.  While a thread is between its first assignment and its write it holds
\* the lock, no getter returns and no setter mutates, so what a getter returns is
\* never part old, part new; at the end of the lock hold the three domains are the
\* normalized arguments, stopovers are in upper case, every key of mappings and
\* last_sent is a stopover, the write has replaced the unified file once (the .bak
\* is the file of before the call); and the thread notifies stopovers, mappings
\* and last_sent only from there.
C35_ReplaceAllAtomic ==
    [][\A t \in Threads :
        /\ th[t].pc \in InReplace =>
                /\ lock = t
                /\ held' = held \/ held' = NoHeld
                /\ config' # config => th'[t].pc # th[t].pc
        /\ (held = NoHeld /\ held' # NoHeld) => Whole(held'[2])
        /\ (th[t].pc = "ra_save" /\ th'[t].pc = "release" /\ hist'.faults = 0) =>
                /\ bak' = disk
                /\ disk' = JsonFile(Dump(config))
        /\ (th[t].pc = "release" /\ Replacing(t)) =>
                /\ lock = t
                /\ config.stopovers = th[t].mine.stopovers
                /\ config.mappings = th[t].mine.mappings
                /\ config.last_sent = th[t].mine.last_sent
                /\ Whole(config)
                /\ tmp = Absent
                /\ th[t].emits = <<"stopovers", "mappings", "last_sent">>
        /\ (Replacing(t) /\ th'[t].pc \in Notifying /\ th[t].pc \notin Notifying) =>
                th[t].pc = "release"]_vars

\* Thread 1 is in a callback of its replace_all_config(['dkr'], ...): memory and the
\* unified file hold DKR alone in all three domains, the ABJ items of the arguments
\* are gone, and a getter that returned before the call holds ABJ in all three.
C35_Witness ==
    /\ th[1].pc = "call"
    /\ Replacing(1)
    /\ config.stopovers = <<"DKR">>
    /\ DOMAIN config.mappings = {"DKR"}
    /\ DOMAIN config.last_sent = {"DKR"}
    /\ disk = JsonFile(Dump(config))
    /\ held # NoHeld
    /\ held[2].stopovers = <<"ABJ">>
    /\ DOMAIN held[2].mappings = {"ABJ"}
    /\ DOMAIN held[2].last_sent = {"ABJ"}

\* ------------------------------------------------------------------ claims (SpecAdd)

\* C36: when two threads call add_mapping(code, e1) and add_mapping(code, e2) with
\* distinct addresses and both calls have returned True, mappings[code] holds both
\* e1 and e2.
C36_NoLostUpdate ==
    (/\ th[1].pc = "returned_true"
     /\ th[2].pc = "returned_true"
     /\ th[1].call[2] = th[2].call[2]
     /\ th[1].call[3] # th[2].call[3]) =>
        /\ th[1].call[2] \in DOMAIN config.mappings
        /\ {th[1].call[3], th[2].call[3]} \subseteq SeqToSet(config.mappings[th[1].call[2]])

\* ------------------------------------------------------------------ claims (SpecArg)

\* C37: what a callback of a notification is handed equals the store's state at
\* capture (the store does not change during the notification), whatever the
\* callbacks before it did to the objects they were handed, for the callbacks of
\* a domain and for the global ones.
C37_ArgumentIsolation ==
    \A cb \in DOMAIN seen : seen[cb] = Getter(cb.ch, config)[1]

\* ------------------------------------------------------------------ claims (Spec), calls that change nothing

\* The call finds nothing to do: the code is already a stopover, has no mapping,
\* or has no last_sent entry.
NothingToDo(cfg, c) ==
    \/ ArgOp(c) = "add_stopover" /\ ArgCode(c) \in SeqToSet(cfg.stopovers)
    \/ ArgOp(c) = "remove_mapping" /\ ArgCode(c) \notin DOMAIN cfg.mappings
    \/ ArgOp(c) = "clear_last_sent" /\ ArgCode(c) \notin DOMAIN cfg.last_sent
    \/ ArgOp(c) = "clear_last_sent_normalized" /\ StrUpper(ArgCode(c)) \notin DOMAIN cfg.last_sent

\* C38: add_stopover of a code already present, remove_mapping of a code with no
\* mapping, clear_last_sent and clear_last_sent_normalized of a code with no
\* last_sent entry perform no disk write and leave the configuration in memory,
\* the unified file and the .bak file as they were.
C38_NoWriteWhenNothingChanges ==
    [][(SetterStep /\ NothingToDo(config, last'.call)) =>
            /\ ~last'.saved
            /\ config' = config
            /\ disk' = disk
            /\ bak' = bak
            /\ tmp' = tmp
            /\ hist'.written = hist.written]_vars

\* add_stopover('ABJ') has returned on a store loaded from a unified file that
\* lists ABJ: the process has written nothing and there is no .bak file.
C38_Witness ==
    /\ last # NoLast
    /\ ArgOp(last.call) = "add_stopover"
    /\ ArgCode(last.call) \in SeqToSet(config.stopovers)
    /\ ~last.saved
    /\ ~hist.written
    /\ disk # Absent
    /\ bak = Absent

\* ------------------------------------------------------------------ claims (SpecLive)

\* C39: with getters and setters called from two threads and from inside
\* callbacks, a thread that asks for the lock gets it, every call that has started
\* returns, and the lock is free whenever no call is in progress.
C39_DeadlockFree ==
    /\ []((\A t \in Threads : th[t].pc = "idle") => lock = 0)
    /\ \A t \in Threads : (th[t].pc = "lv_lock") ~> (th[t].pc # "lv_lock")
    /\ \A t \in Threads : (th[t].pc # "idle") ~> (th[t].pc = "idle")

\* Thread 1 holds the lock inside set_last_sent, called by a callback of the
\* notification of its own set_mapping, while thread 2 waits for the lock.
C39_Witness ==
    /\ lock = 1
    /\ th[1].pc = "lv_save"
    /\ ArgOp(th[1].call) = "set_last_sent"
    /\ Len(th[1].mine) = 1
    /\ ArgOp(th[1].mine[1].call) = "set_mapping"
    /\ th[2].pc = "lv_lock"

====
